---------------------------- MODULE Spec2Model ----------------------------
(***************************************************************************)
(* Season / competition simulation engine of football-sim (src/sim.py),    *)
(* its GUI (src/gui.py) and the career simulator (src/main.py).            *)
(*                                                                         *)
(* The engines are modelled under one specification each:                  *)
(*   SpecLeague    simSeason (double round-robin, table, ranking)          *)
(*   SpecKnockout  simCups and the knockout stage of simContinental        *)
(*   SpecGroups    the group stage of simContinental                       *)
(*   SpecCalls     whole calls of simCups and simContinental               *)
(*   SpecEvolve    adjust_team_ratings_after_season, team by team          *)
(*   SpecSeason    run_season on a loaded world, stage by stage            *)
(*   SpecAdjust    SpecSeason with the ratings evolved by other callers    *)
(*   SpecRating    SpecSeason with _team_rating called by other callers    *)
(*   SpecTrophies  a continental competition and record_team_history       *)
(*   SpecGui       the GUI handlers over the worker thread of run_season   *)
(*   SpecCareer    simulatePlayerSeason, season after season               *)
(*                                                                         *)
(* Python lists are 0-based; the sequences below are 1-based, so index i   *)
(* of the source is index i+1 here.  Team names are the team indices: the  *)
(* model works with pairwise distinct names.                               *)
(*                                                                         *)
(* Randomness: _poisson_sample can return any natural number whatever the  *)
(* rate (every rate is clamped to be > 0), so the ratings only weight the  *)
(* outcomes and never exclude one; each draw of the shared generator is an *)
(* input chosen with \E from a small set.                                  *)
(***************************************************************************)
EXTENDS Integers, Sequences, FiniteSets, TLC

\* ------------------------------------------------------------------ bounds
MaxLeagueTeams == 2      \* teams in the league handed to simSeason
MaxCupTeams == 6         \* entrants of the cup handed to simCups
MaxGroups == 3           \* groups of the continental competition
MaxContinentalTeams == 16 \* teams of the continental competition (group stage)
MaxEvolveTeams == 2      \* teams of the league whose ratings evolve
MaxWorldTeams == 2       \* teams of the first league of the loaded world
MaxSeasons == 2          \* calls of run_season
MaxRecordedTeams == 8    \* entrants of the continental competition whose records are filed
MaxClicks == 3           \* GUI handlers run on behalf of the user
MaxCareer == 10          \* calls of simulatePlayerSeason on one player

\* values of _poisson_sample that are exercised
GoalDraws == {0, 1}
\* reputationFactor values of the league teams
RepValues == {40, 70}

VARIABLES
    \* ---- simSeason (one league) ----
    pcL,            \* "idle" | "matches" | "done"
    teams,          \* the league's team list (copied at entry)
    table,          \* index -> row being accumulated
    fixtures,       \* result of _build_fixtures
    match_results,  \* the "fixtures" list of the result
    sorted_table,   \* the "table" list of the result
    \* ---- simCups (one cup) ----
    pcC,            \* "off" | "idle" | "qualifying" | "round" | "done"
    cup_teams,      \* the cup's team list (copied at entry)
    league_seed_info, \* teamId -> <<tier, league position>>
    seed_indices,   \* entrant indices in seeding order
    q_candidates,   \* the entrants of the Qualifying Round
    main_seeds,     \* the entrants exempt from it
    current_indices, \* the survivors entering the next round
    rounds,         \* the "rounds" list of the result
    winner_name,    \* the "winner" of the result
    cup_stats_by_key, \* the cups of the call, in the order of the loop
    cup_key,        \* the place of the cup in hand in cup_stats_by_key
    cup_all_results, \* the results of the cups dealt with so far
    \* ---- simContinental (one competition) ----
    pcK,            \* "off" | "idle" | "groups" | "round" | "done"
    cont_teams,     \* the competition's team list (copied at entry)
    groups,         \* group index -> the teams dealt to the group
    group_results,  \* the "groups" list of the result
    knockout_qualifiers, \* the top two of every group
    current_teams,  \* the survivors entering the next round
    knockout_rounds, \* the "rounds" list of the result
    cont_winner,    \* the "winner" of the result
    continental_comps, \* the competitions of the call, in the order of the loop
    cont_key,       \* the place of the competition in hand in continental_comps
    cont_all_results, \* the results of the competitions dealt with so far
    \* ---- adjust_team_ratings_after_season (one league) ----
    pcE,            \* "off" | "idle" | "teams" | "done"
    COMP_TEAMS,     \* the league's team dicts of the registry, changed in place
    league_table,   \* teamIds of the league table, best first
    expected_pos,   \* teamId -> expected finishing position
    finish_pos,     \* teamId -> actual finishing position
    next_team,      \* index of the next team of "for t in teams"
    TEAM_HISTORY,   \* teamId -> rating snapshots
    CURRENT_SEASON, \* the season counter
    \* ---- run_season (the world) ----
    stage,          \* "off" | "idle" | "league" | "cup" | "continental" |
                    \* "evolve" | "history" | "advance": what run_season does next
    TEAM_OBJECTS,   \* the team dicts loaded from teams.json, by reference
    COMPS,          \* COMP_TEAMS, COMP_FORMAT and COMP_TIER: per competition
                    \* its id, format, tier and the references of its teams
    TEAM_ID_MAP,    \* teamId -> reference of the team dict
    LEAGUE_HISTORY, \* the league results of the seasons played
    CUP_HISTORY,    \* the cup results of the seasons played
    RATING_CACHE,   \* _RATING_CACHE: cache key -> rating
    run_cups,       \* the run_cups argument of the call
    league_results, \* the locals of run_season
    cup_results,
    continental_results,
    rated,          \* the dict handed to _team_rating by the last direct call
    rating,         \* the value that call returned
    seasons_left,   \* calls of run_season the caller's loop has still to make
    \* ---- the GUI (gui.py) ----
    simulation_running, \* self.simulation_running
    worker_threads, \* live threads running simulate()
    complete_pending, \* _simulation_complete callbacks posted with after(0, ...)
    export_file,    \* the content of the export file, or NoFile
    clicks,         \* handlers run on behalf of the user so far
    handler,        \* what the last GUI handler did
    request,        \* the accepted request: counter at its start, seasons asked
                    \* for, whether an import was made since
    \* ---- the career simulator (main.py) ----
    player,         \* the Player object: age, overall, potential, history
    \* ---- the random module ----
    random_calls    \* values taken from the shared generator by the call in hand

leagueVars == <<pcL, teams, table, fixtures, match_results, sorted_table>>

cupVars == <<pcC, cup_teams, league_seed_info, seed_indices, q_candidates,
             main_seeds, current_indices, rounds, winner_name>>

contVars == <<pcK, knockout_qualifiers, current_teams, knockout_rounds, cont_winner>>

groupVars == <<cont_teams, groups, group_results>>

cupCallVars == <<cup_stats_by_key, cup_key, cup_all_results>>

contCallVars == <<continental_comps, cont_key, cont_all_results>>

worldVars == <<stage, TEAM_OBJECTS, COMPS, TEAM_ID_MAP, LEAGUE_HISTORY, CUP_HISTORY,
               RATING_CACHE, run_cups, league_results, cup_results,
               continental_results, rated, rating, seasons_left,
               simulation_running, worker_threads, complete_pending, export_file,
               clicks, handler, request, player>>

guiVars == <<simulation_running, worker_threads, complete_pending, export_file,
             clicks, handler, request>>

evolveVars == <<pcE, COMP_TEAMS, league_table, expected_pos, finish_pos,
                next_team, TEAM_HISTORY, CURRENT_SEASON>>

vars == <<leagueVars, cupVars, contVars, groupVars, evolveVars,
          cupCallVars, contCallVars, worldVars, random_calls>>

\* ------------------------------------------------------------------ helpers
RECURSIVE SumSeq(_)
SumSeq(s) == IF s = <<>> THEN 0 ELSE Head(s) + SumSeq(Tail(s))

SeqRange(s) == {s[i] : i \in 1..Len(s)}

Max2(a, b) == IF a >= b THEN a ELSE b
Min2(a, b) == IF a <= b THEN a ELSE b

\* --------------------------------------------------------- _build_fixtures
\* for i in range(n): for j in range(n): if i != j: append (i, j)
RECURSIVE FixturesFrom(_, _, _)
FixturesFrom(n, i, j) ==
    IF i > n THEN <<>>
    ELSE IF j > n THEN FixturesFrom(n, i + 1, 1)
    ELSE IF i # j THEN <<(<<i, j>>)>> \o FixturesFrom(n, i, j + 1)
    ELSE FixturesFrom(n, i, j + 1)

\* a single round-robin: each pairing once
RECURSIVE FixturesHalf(_, _, _)
FixturesHalf(n, i, j) ==
    IF i > n THEN <<>>
    ELSE IF j > n THEN FixturesHalf(n, i + 1, 1)
    ELSE IF i < j THEN <<(<<i, j>>)>> \o FixturesHalf(n, i, j + 1)
    ELSE FixturesHalf(n, i, j + 1)

BuildFixturesSingle(n) == FixturesHalf(n, 1, 1)

BuildFixtures(n) == FixturesFrom(n, 1, 1)

\* --------------------------------------------------------- _simulate_match
\* gh0, ga0: the two Poisson draws; side: the outcome of random() < 0.5,
\* consumed only when force_winner and the draws tie.
SimulateMatchNoBreak(gh0, ga0, side, force_winner) == <<gh0, ga0>>

SimulateMatch(gh0, ga0, side, force_winner) ==
    IF force_winner /\ gh0 = ga0
    THEN IF side THEN <<gh0 + 1, ga0>> ELSE <<gh0, ga0 + 1>>
    ELSE <<gh0, ga0>>

\* _poisson_sample returns k after k + 1 calls of random.random(); a forced
\* winner takes one more when the samples are level
MatchCalls(gh0, ga0, force_winner) ==
    (gh0 + 1) + (ga0 + 1) + (IF force_winner /\ gh0 = ga0 THEN 1 ELSE 0)

\* ---------------------------------------------------------------- simSeason
NewRow(i, t) ==
    [teamId |-> t.teamId, teamName |-> t.teamName,
     played |-> 0, wins |-> 0, draws |-> 0, losses |-> 0,
     gf |-> 0, ga |-> 0, gd |-> 0, points |-> 0,
     reputationFactor |-> t.reputationFactor]

\* the table after one fixture (home h, away a) ended gh : ga
UpdateTable(tbl, h, a, gh, ga) ==
    LET hw == gh > ga
        aw == gh < ga
        dr == gh = ga
    IN [i \in DOMAIN tbl |->
          IF i = h THEN
            [tbl[i] EXCEPT !.played = @ + 1, !.gf = @ + gh, !.ga = @ + ga,
                           !.wins = @ + (IF hw THEN 1 ELSE 0),
                           !.losses = @ + (IF aw THEN 1 ELSE 0),
                           !.draws = @ + (IF dr THEN 1 ELSE 0),
                           !.points = @ + (IF hw THEN 3 ELSE IF dr THEN 1 ELSE 0)]
          ELSE IF i = a THEN
            [tbl[i] EXCEPT !.played = @ + 1, !.gf = @ + ga, !.ga = @ + gh,
                           !.wins = @ + (IF aw THEN 1 ELSE 0),
                           !.losses = @ + (IF hw THEN 1 ELSE 0),
                           !.draws = @ + (IF dr THEN 1 ELSE 0),
                           !.points = @ + (IF aw THEN 3 ELSE IF dr THEN 1 ELSE 0)]
          ELSE tbl[i]]

\* key=lambda r: (-points, -gd, -gf, -reputationFactor), compared as tuples
RECURSIVE TupleLess(_, _)
TupleLess(x, y) ==
    IF x = <<>> \/ y = <<>> THEN FALSE
    ELSE IF Head(x) # Head(y) THEN Head(x) < Head(y)
    ELSE TupleLess(Tail(x), Tail(y))

GroupKey(r) == <<-r.points, -r.gd, -r.gf>>

LeagueKey(r) == <<-r.points, -r.gd, -r.gf, -r.reputationFactor>>

\* sorted(rows, key): stable, ascending in the key.  The items are the
\* pairs [k |-> key(row), v |-> row].
RECURSIVE InsertByKey(_, _)
InsertByKey(s, r) ==
    IF s = <<>> THEN <<r>>
    ELSE IF TupleLess(r.k, Head(s).k) THEN <<r>> \o s
    ELSE <<Head(s)>> \o InsertByKey(Tail(s), r)

RECURSIVE SortedByKey(_)
SortedByKey(s) ==
    IF s = <<>> THEN <<>>
    ELSE InsertByKey(SortedByKey(SubSeq(s, 1, Len(s) - 1)), s[Len(s)])

SortLeagueNoRep(rows) ==
    LET s == SortedByKey([i \in DOMAIN rows |-> [k |-> GroupKey(rows[i]), v |-> rows[i]]])
    IN [i \in DOMAIN s |-> s[i].v]

SortLeagueTable(rows) ==
    LET s == SortedByKey([i \in DOMAIN rows |-> [k |-> LeagueKey(rows[i]), v |-> rows[i]]])
    IN [i \in DOMAIN s |-> s[i].v]

\* gd is filled in for every row once all fixtures are played
WithGd(tbl) == [i \in DOMAIN tbl |-> [tbl[i] EXCEPT !.gd = tbl[i].gf - tbl[i].ga]]

LeagueTeam(i, rep) == [teamId |-> i, teamName |-> i, reputationFactor |-> rep]

LeagueInputs ==
    UNION {[1..n -> RepValues] : n \in 0..MaxLeagueTeams}

InitLeague ==
    /\ pcL = "idle"
    /\ \E reps \in LeagueInputs :
          teams = [i \in DOMAIN reps |-> LeagueTeam(i, reps[i])]
    /\ table = <<>>
    /\ fixtures = <<>>
    /\ match_results = <<>>
    /\ sorted_table = <<>>

LeagueOff ==
    /\ pcL = "off"
    /\ teams = <<>>
    /\ table = <<>>
    /\ fixtures = <<>>
    /\ match_results = <<>>
    /\ sorted_table = <<>>

\* the table kept from the previous call instead of being rebuilt
FreshTableKeep(ts, old) ==
    IF DOMAIN old = DOMAIN ts THEN old ELSE [i \in DOMAIN ts |-> NewRow(i, ts[i])]

FreshTable(ts, old) == [i \in DOMAIN ts |-> NewRow(i, ts[i])]

\* entry of simSeason for one league: copy, fresh table, fixtures
SimSeasonStart ==
    /\ pcL \in {"idle", "done"}
    /\ pcL' = "matches"
    /\ teams' = teams
    /\ table' = FreshTable(teams, table)
    /\ fixtures' = BuildFixtures(Len(teams))
    /\ match_results' = <<>>
    /\ sorted_table' = <<>>
    /\ UNCHANGED <<cupVars, contVars, groupVars, evolveVars, cupCallVars, contCallVars>>
    /\ random_calls' = 0
    /\ UNCHANGED worldVars

\* one iteration of "for home_idx, away_idx in fixtures"
PlayFixture ==
    /\ pcL = "matches"
    /\ Len(match_results) < Len(fixtures)
    /\ LET f == fixtures[Len(match_results) + 1]
           h == f[1]
           a == f[2]
       IN \E gh0 \in GoalDraws, ga0 \in GoalDraws :
            LET g == SimulateMatch(gh0, ga0, TRUE, FALSE)
            IN /\ table' = UpdateTable(table, h, a, g[1], g[2])
               /\ random_calls' = random_calls + MatchCalls(gh0, ga0, FALSE)
               /\ match_results' = Append(match_results,
                     [home_idx |-> h, away_idx |-> a,
                      home_team |-> table[h].teamName,
                      away_team |-> table[a].teamName,
                      home_goals |-> g[1], away_goals |-> g[2]])
    /\ UNCHANGED <<pcL, teams, fixtures, sorted_table>>
    /\ UNCHANGED <<cupVars, contVars, groupVars, evolveVars, cupCallVars, contCallVars>>
    /\ UNCHANGED worldVars

\* after the last fixture: goal differences, then the ranking
SimSeasonFinish ==
    /\ pcL = "matches"
    /\ Len(match_results) = Len(fixtures)
    /\ table' = WithGd(table)
    /\ sorted_table' = SortLeagueTable(WithGd(table))
    /\ pcL' = "done"
    /\ UNCHANGED <<teams, fixtures, match_results>>
    /\ UNCHANGED <<cupVars, contVars, groupVars, evolveVars, cupCallVars, contCallVars>>
    /\ UNCHANGED random_calls
    /\ UNCHANGED worldVars

NextLeague == SimSeasonStart \/ PlayFixture \/ SimSeasonFinish

\* ------------------------------------------------------------ random.shuffle
\* Fisher-Yates from the last position down: position i is swapped with the
\* drawn position js[i] <= i.
Swap(s, i, j) == [s EXCEPT ![i] = s[j], ![j] = s[i]]

RECURSIVE ShuffleFrom(_, _, _)
ShuffleFrom(s, js, i) ==
    IF i < 2 THEN s ELSE ShuffleFrom(Swap(s, i, js[i]), js, i - 1)

Shuffle(s, js) == ShuffleFrom(s, js, Len(s))

\* the draw vectors exercised for a list of n elements: every position kept,
\* every position swapped with the first, every position swapped with its
\* predecessor
ShuffleDraws(n) ==
    {[i \in 2..n |-> i], [i \in 2..n |-> 1], [i \in 2..n |-> i - 1]}

\* the draws of one decisive match: two Poisson samples and the coin
MatchDraws == GoalDraws \X GoalDraws \X BOOLEAN

\* the positions drawn by random.shuffle for a list of n elements
ShuffleCalls(n) == IF n > 1 THEN n - 1 ELSE 0

\* the generator has not been used
GeneratorFresh == random_calls = 0

\* ------------------------------------------------------------------ simCups
\* None is no team id and no team name
None == -1

Unseeded == <<999, 999>>

IsEven(x) == x > 0 /\ x % 2 = 0

RECURSIVE HasOneBit(_)
HasOneBit(x) == IF x <= 1 THEN x = 1 ELSE IF x % 2 = 1 THEN FALSE ELSE HasOneBit(x \div 2)

\* x > 0 and (x & (x - 1)) == 0
IsPowerOfTwo(x) == x > 0 /\ HasOneBit(x)

\* target = 1; while target * 2 <= n: target *= 2
RECURSIVE TargetFrom(_, _)
TargetFrom(target, n) == IF target * 2 <= n THEN TargetFrom(target * 2, n) ELSE target

TargetSize(n) == TargetFrom(1, n)

\* the entrants in the order of the team list
SeedOrderAsGiven(ts, info) == [i \in DOMAIN ts |-> i]

\* seed_indices.sort(key = league_seed_info.get(teamId, (999, 999)))
SeedOrder(ts, info) ==
    LET s == SortedByKey([i \in DOMAIN ts |->
                 [k |-> IF ts[i].teamId \in DOMAIN info
                        THEN info[ts[i].teamId] ELSE Unseeded,
                  v |-> i]])
    IN [i \in DOMAIN s |-> s[i].v]

\* seed_indices[-k:] and seed_indices[:-k], k > 0
LastK(s, k) == SubSeq(s, Len(s) - k + 1, Len(s))
AllButLastK(s, k) == SubSeq(s, 1, Len(s) - k)

\* w = a if gh > ga else b
MatchWinnerHome(a, b, gh, ga) == a

MatchWinner(a, b, gh, ga) == IF gh > ga THEN a ELSE b

\* one decisive match between entrants a (home) and b (away)
CupMatch(ts, a, b, d) ==
    LET g == SimulateMatch(d[1], d[2], d[3], TRUE)
    IN [home_team |-> ts[a].teamName, away_team |-> ts[b].teamName,
        home_goals |-> g[1], away_goals |-> g[2],
        winner |-> ts[MatchWinner(a, b, g[1], g[2])].teamName,
        w |-> MatchWinner(a, b, g[1], g[2])]

\* the match dict as it is stored (w is the local variable, not stored)
Stored(m) == [home_team |-> m.home_team, away_team |-> m.away_team,
              home_goals |-> m.home_goals, away_goals |-> m.away_goals,
              winner |-> m.winner]

\* for i in range(0, len(q_candidates), 2): a = q[i]; b = q[i + 1]
QualifyingPairs(q) == [k \in 1..(Len(q) \div 2) |-> <<q[2 * k - 1], q[2 * k]>>]

\* bye = pop() when the count is odd; then a = pop(), b = pop() until empty
PoppedPairs(cur) ==
    LET m == IF Len(cur) % 2 = 1 THEN Len(cur) - 1 ELSE Len(cur)
    IN [k \in 1..(m \div 2) |-> <<cur[m - 2 * k + 2], cur[m - 2 * k + 1]>>]

PoppedBye(cur) == IF Len(cur) % 2 = 1 THEN <<cur[Len(cur)]>> ELSE <<>>

\* only the last round has a name of its own
RoundNameFinalOnly(size) ==
    IF size = 2 THEN "Final" ELSE "Round of " \o ToString(size)

\* the name of a round entered by size teams
CupRoundName(size) ==
    IF size = 2 THEN "Final"
    ELSE IF size = 4 THEN "Semi-finals"
    ELSE IF size = 8 THEN "Quarter-finals"
    ELSE IF size = 16 THEN "Round of 16"
    ELSE IF size = 32 THEN "Round of 32"
    ELSE "Round of " \o ToString(size)

\* current_indices = main_seeds + winners
MainDrawNoWinners(seeds, winners) == seeds

MainDraw(seeds, winners) == seeds \o winners

CupTeam(i) == [teamId |-> i, teamName |-> i]

\* for comp_id, res in league_results.items(): for pos, row in
\* enumerate(table, start = 1): league_seed_info[tid] = (tier, pos).
\* A league is [tier, table], the table being the teamIds best first; a team
\* of several leagues keeps the entry of the last one.
SeedInfoFrom(results) ==
    LET In(l) == SeqRange(results[l].table)
        ids == UNION {In(l) : l \in DOMAIN results}
        LastLeague(tid) ==
            CHOOSE l \in DOMAIN results :
                tid \in In(l) /\ \A m \in DOMAIN results : tid \in In(m) => m <= l
        PosIn(tbl, tid) == CHOOSE k \in DOMAIN tbl : tbl[k] = tid /\ \A j \in DOMAIN tbl : tbl[j] = tid => j <= k
    IN [tid \in ids |->
          <<results[LastLeague(tid)].tier,
            PosIn(results[LastLeague(tid)].table, tid)>>]

\* the teamIds of S, highest first
RECURSIVE Descending(_)
Descending(S) ==
    IF S = {} THEN <<>>
    ELSE LET m == CHOOSE x \in S : \A y \in S : y <= x
         IN <<m>> \o Descending(S \ {m})

\* the league results handed to simCups: the odd entrants in a second-tier
\* league and the even ones in a first-tier league, or the odd entrants in a
\* first-tier league and the even ones in no league at all
LeagueResultSamples(n) ==
    {<<[tier |-> 2, table |-> Descending({i \in 1..n : i % 2 = 1})],
       [tier |-> 1, table |-> Descending({i \in 1..n : i % 2 = 0})]>>,
     <<[tier |-> 1, table |-> Descending({i \in 1..n : i % 2 = 1})]>>}

SeedInfos(n) == {SeedInfoFrom(r) : r \in LeagueResultSamples(n)}

InitCup ==
    /\ pcC = "idle"
    /\ \E n \in 0..MaxCupTeams :
          /\ cup_teams = [i \in 1..n |-> CupTeam(i)]
          /\ league_seed_info \in SeedInfos(n)
    /\ seed_indices = <<>>
    /\ q_candidates = <<>>
    /\ main_seeds = <<>>
    /\ current_indices = <<>>
    /\ rounds = <<>>
    /\ winner_name = None
    /\ cup_stats_by_key = <<cup_teams>>
    /\ cup_key = 1
    /\ cup_all_results = <<>>

CupOff ==
    /\ pcC = "off"
    /\ cup_teams = <<>>
    /\ league_seed_info = <<>>
    /\ seed_indices = <<>>
    /\ q_candidates = <<>>
    /\ main_seeds = <<>>
    /\ current_indices = <<>>
    /\ rounds = <<>>
    /\ winner_name = None
    /\ cup_stats_by_key = <<>>
    /\ cup_key = 0
    /\ cup_all_results = <<>>

\* {"rounds": [], "winner": None}
EmptyCupResult == [rounds |-> <<>>, winner |-> None]

\* entry of the loop body for one cup, up to the choice of the first stage
CupStart ==
    /\ pcC = "idle"
    /\ LET n == Len(cup_teams)
           seeds == SeedOrder(cup_teams, league_seed_info)
           k == 2 * (n - TargetSize(n))
       IN IF n = 0
          THEN /\ pcC' = "done"
               /\ cup_all_results' = Append(cup_all_results, EmptyCupResult)
               /\ UNCHANGED <<seed_indices, q_candidates, main_seeds, current_indices>>
          ELSE IF ~IsPowerOfTwo(n)
          THEN /\ pcC' = "qualifying"
               /\ seed_indices' = seeds
               /\ q_candidates' = LastK(seeds, k)
               /\ main_seeds' = AllButLastK(seeds, k)
               /\ UNCHANGED <<current_indices, cup_all_results>>
          ELSE /\ pcC' = "round"
               /\ seed_indices' = seeds
               /\ current_indices' = seeds
               /\ UNCHANGED <<q_candidates, main_seeds, cup_all_results>>
    /\ rounds' = <<>>
    /\ winner_name' = None
    /\ UNCHANGED <<cup_teams, league_seed_info>>
    /\ UNCHANGED <<leagueVars, contVars, groupVars, evolveVars, contCallVars>>
    /\ UNCHANGED <<cup_stats_by_key, cup_key, random_calls>>
    /\ UNCHANGED worldVars

\* the Qualifying Round: shuffle, pair neighbours, decisive matches
QualifyingRound ==
    /\ pcC = "qualifying"
    /\ \E js \in ShuffleDraws(Len(q_candidates)) :
         LET q == Shuffle(q_candidates, js)
             pairs == QualifyingPairs(q)
         IN \E ds \in [DOMAIN pairs -> MatchDraws] :
              LET ms == [k \in DOMAIN pairs |->
                           CupMatch(cup_teams, pairs[k][1], pairs[k][2], ds[k])]
              IN /\ q_candidates' = q
                 /\ random_calls' = random_calls + ShuffleCalls(Len(q_candidates))
                       + SumSeq([k \in DOMAIN ds |-> MatchCalls(ds[k][1], ds[k][2], TRUE)])
                 /\ rounds' = Append(rounds,
                       [round_name |-> "Qualifying Round",
                        matches |-> [k \in DOMAIN ms |-> Stored(ms[k])]])
                 /\ current_indices' =
                       MainDraw(main_seeds, [k \in DOMAIN ms |-> ms[k].w])
    /\ pcC' = "round"
    /\ UNCHANGED <<cup_teams, league_seed_info, seed_indices, main_seeds, winner_name>>
    /\ UNCHANGED <<leagueVars, contVars, groupVars, evolveVars, contCallVars>>
    /\ UNCHANGED cupCallVars
    /\ UNCHANGED worldVars

\* one iteration of "while len(current_indices) > 1"
KnockoutRound ==
    /\ pcC = "round"
    /\ Len(current_indices) > 1
    /\ \E js \in ShuffleDraws(Len(current_indices)) :
         LET cur == Shuffle(current_indices, js)
             bye == PoppedBye(cur)
             pairs == PoppedPairs(cur)
             size == 2 * Len(pairs) + Len(bye)
         IN \E ds \in [DOMAIN pairs -> MatchDraws] :
              LET ms == [k \in DOMAIN pairs |->
                           CupMatch(cup_teams, pairs[k][1], pairs[k][2], ds[k])]
              IN /\ random_calls' = random_calls + ShuffleCalls(Len(current_indices))
                       + SumSeq([k \in DOMAIN ds |-> MatchCalls(ds[k][1], ds[k][2], TRUE)])
                 /\ rounds' = Append(rounds,
                       [round_name |-> CupRoundName(size),
                        matches |-> [k \in DOMAIN ms |-> Stored(ms[k])]])
                 /\ current_indices' = bye \o [k \in DOMAIN ms |-> ms[k].w]
    /\ UNCHANGED <<pcC, cup_teams, league_seed_info, seed_indices, q_candidates,
                   main_seeds, winner_name>>
    /\ UNCHANGED <<leagueVars, contVars, groupVars, evolveVars, contCallVars>>
    /\ UNCHANGED cupCallVars
    /\ UNCHANGED worldVars

\* after the loop: the survivor's name is the winner
CupFinish ==
    /\ pcC = "round"
    /\ Len(current_indices) <= 1
    /\ winner_name' = IF current_indices # <<>>
                      THEN cup_teams[current_indices[1]].teamName ELSE None
    /\ pcC' = "done"
    /\ UNCHANGED <<cup_teams, league_seed_info, seed_indices, q_candidates,
                   main_seeds, current_indices, rounds>>
    /\ UNCHANGED <<leagueVars, contVars, groupVars, evolveVars, contCallVars>>
    /\ cup_all_results' = Append(cup_all_results,
          [rounds |-> rounds, winner |-> winner_name'])
    /\ UNCHANGED <<cup_stats_by_key, cup_key, random_calls>>
    /\ UNCHANGED worldVars

NextCup == CupStart \/ QualifyingRound \/ KnockoutRound \/ CupFinish

\* the numbers of entrants of the cups of one call of simCups
CupCallSizes == {<<0>>, <<0, 3>>, <<2, 0>>, <<0, 0>>, <<3, 2>>}

\* a call of simCups for several cups of one nation
InitCupCall ==
    /\ pcC = "idle"
    /\ \E sizes \in CupCallSizes :
          cup_stats_by_key = [k \in DOMAIN sizes |-> [i \in 1..sizes[k] |-> CupTeam(i)]]
    /\ cup_key = 1
    /\ cup_teams = cup_stats_by_key[1]
    /\ league_seed_info \in SeedInfos(3)
    /\ seed_indices = <<>>
    /\ q_candidates = <<>>
    /\ main_seeds = <<>>
    /\ current_indices = <<>>
    /\ rounds = <<>>
    /\ winner_name = None
    /\ cup_all_results = <<>>

\* "for key, teams in cup_stats_by_key.items()" takes the next cup
CupNext ==
    /\ pcC = "done"
    /\ cup_key < Len(cup_stats_by_key)
    /\ cup_key' = cup_key + 1
    /\ cup_teams' = cup_stats_by_key[cup_key + 1]
    /\ pcC' = "idle"
    /\ UNCHANGED <<league_seed_info, seed_indices, q_candidates, main_seeds,
                   current_indices, rounds, winner_name, cup_stats_by_key,
                   cup_all_results, random_calls>>
    /\ UNCHANGED <<leagueVars, contVars, groupVars, evolveVars, contCallVars>>
    /\ UNCHANGED worldVars

\* --------------------------------------------- simContinental, group stage
\* num_groups = len(teams) // 4
NumGroupsCeil(n) == (n + 3) \div 4

NumGroups(n) == n \div 4

\* the teams in the order they are handed over
Unsorted(ts) == ts

\* sorted(teams, key = reputationFactor, reverse = True): descending, stable
ReputationSorted(ts) ==
    LET s == SortedByKey([i \in DOMAIN ts |-> [k |-> <<-ts[i].reputationFactor>>, v |-> ts[i]]])
    IN [i \in DOMAIN s |-> s[i].v]

\* for i, team in enumerate(teams_sorted): groups[i % num_groups].append(team)
\* (source index i is position i + 1 here, source group g is group g + 1)
DealGroups(ts, g) ==
    [grp \in 1..g |->
        [k \in 1..Cardinality({i \in DOMAIN ts : (i - 1) % g = grp - 1}) |->
            ts[(k - 1) * g + grp]]]

\* the row of a group table: as in the league, without the reputation
NewGroupRow(t) ==
    [teamId |-> t.teamId, teamName |-> t.teamName,
     played |-> 0, wins |-> 0, draws |-> 0, losses |-> 0,
     gf |-> 0, ga |-> 0, gd |-> 0, points |-> 0]

\* the double round-robin of the group: fixture k ends ds[k], never forced
RECURSIVE PlayGroupFixtures(_, _, _, _)
PlayGroupFixtures(tbl, fx, ds, k) ==
    IF k > Len(fx) THEN tbl
    ELSE LET g == SimulateMatch(ds[k][1], ds[k][2], TRUE, FALSE)
         IN PlayGroupFixtures(UpdateTable(tbl, fx[k][1], fx[k][2], g[1], g[2]), fx, ds, k + 1)

\* sorted(group_table.values(), key = (-points, -gd, -gf))
SortGroupTable(rows) ==
    LET s == SortedByKey([i \in DOMAIN rows |-> [k |-> GroupKey(rows[i]), v |-> rows[i]]])
    IN [i \in DOMAIN s |-> s[i].v]

\* for t in teams: if t.teamId == tid: append(t); break
FirstWithId(ts, tid) ==
    LET S == {i \in DOMAIN ts : ts[i].teamId = tid}
    IN IF S = {} THEN <<>>
       ELSE <<ts[CHOOSE i \in S : \A j \in S : i <= j]>>

\* for row in sorted_group[:2]
TopTwo(ts, sorted_group) ==
    LET top == SubSeq(sorted_group, 1, Min2(2, Len(sorted_group)))
    IN IF Len(top) = 0 THEN <<>>
       ELSE IF Len(top) = 1 THEN FirstWithId(ts, top[1].teamId)
       ELSE FirstWithId(ts, top[1].teamId) \o FirstWithId(ts, top[2].teamId)

\* f"Group {chr(65 + group_idx)}"
GroupName(g) == <<"Group", g>>

\* the results of the m fixtures of a group that are exercised: all level,
\* all won at home, and two mixtures of the four score lines
GroupDraws(m) ==
    {[k \in 1..m |-> <<0, 0>>], [k \in 1..m |-> <<1, 0>>],
     [k \in 1..m |-> <<k % 2, (k \div 2) % 2>>],
     [k \in 1..m |-> <<(k \div 4) % 2, (k \div 3) % 2>>]}

ContinentalTeam(i, rep) == [teamId |-> i, teamName |-> i, reputationFactor |-> rep]

\* the reputations of the entrants: in no particular order with repeated
\* values, or all equal
ContinentalReputations(n) ==
    {[i \in 1..n |-> 40 + 10 * ((3 * i) % 7)], [i \in 1..n |-> 50]}

InitGroups ==
    /\ pcK = "idle"
    /\ \E n \in 0..MaxContinentalTeams :
         \E reps \in ContinentalReputations(n) :
            cont_teams = [i \in 1..n |-> ContinentalTeam(i, reps[i])]
    /\ groups = <<>>
    /\ group_results = <<>>
    /\ knockout_qualifiers = <<>>
    /\ current_teams = <<>>
    /\ knockout_rounds = <<>>
    /\ cont_winner = None
    /\ continental_comps = <<cont_teams>>
    /\ cont_key = 1
    /\ cont_all_results = <<>>

\* {"rounds": [], "winner": None}
EmptyContinentalResult == [rounds |-> <<>>, winner |-> None]

\* only a competition without any team is left out
NoTeams(ts) == ts = <<>>

\* not teams or len(teams) < 8
BelowMinimum(ts) == ts = <<>> \/ Len(ts) < 8

\* entry of the loop body for one competition: the sentinel, or the groups
ContinentalStart ==
    /\ pcK = "idle"
    /\ IF BelowMinimum(cont_teams)
       THEN /\ pcK' = "done"
            /\ cont_all_results' = Append(cont_all_results, EmptyContinentalResult)
            /\ UNCHANGED groups
       ELSE /\ pcK' = "groups"
            /\ groups' = DealGroups(ReputationSorted(cont_teams), NumGroups(Len(cont_teams)))
            /\ UNCHANGED cont_all_results
    /\ group_results' = <<>>
    /\ knockout_qualifiers' = <<>>
    /\ knockout_rounds' = <<>>
    /\ cont_winner' = None
    /\ UNCHANGED <<cont_teams, current_teams>>
    /\ UNCHANGED <<leagueVars, cupVars, evolveVars, cupCallVars>>
    /\ UNCHANGED <<continental_comps, cont_key, random_calls>>
    /\ UNCHANGED worldVars

\* one iteration of "for group_idx, group_teams in groups.items()"
PlayGroup ==
    /\ pcK = "groups"
    /\ Len(group_results) < Len(groups)
    /\ LET group_idx == Len(group_results) + 1
           group_teams == groups[group_idx]
           fx == BuildFixtures(Len(group_teams))
       IN \E ds \in GroupDraws(Len(fx)) :
            LET group_table == PlayGroupFixtures(
                                  [i \in DOMAIN group_teams |-> NewGroupRow(group_teams[i])],
                                  fx, ds, 1)
                sorted_group == SortGroupTable(WithGd(group_table))
            IN /\ random_calls' = random_calls
                     + SumSeq([k \in DOMAIN ds |-> MatchCalls(ds[k][1], ds[k][2], FALSE)])
               /\ group_results' = Append(group_results,
                      [group_name |-> GroupName(group_idx), table |-> sorted_group])
               /\ knockout_qualifiers' = knockout_qualifiers \o TopTwo(cont_teams, sorted_group)
    /\ UNCHANGED <<pcK, cont_teams, groups, current_teams, knockout_rounds, cont_winner>>
    /\ UNCHANGED <<leagueVars, cupVars, evolveVars, cupCallVars>>
    /\ UNCHANGED contCallVars
    /\ UNCHANGED worldVars

\* after the last group: the qualifiers enter the knockout stage
GroupsFinish ==
    /\ pcK = "groups"
    /\ Len(group_results) = Len(groups)
    /\ current_teams' = knockout_qualifiers
    /\ knockout_rounds' = <<>>
    /\ pcK' = "round"
    /\ UNCHANGED <<cont_teams, groups, group_results, knockout_qualifiers, cont_winner>>
    /\ UNCHANGED <<leagueVars, cupVars, evolveVars, cupCallVars>>
    /\ UNCHANGED <<contCallVars, random_calls>>
    /\ UNCHANGED worldVars

NextGroups == ContinentalStart \/ PlayGroup \/ GroupsFinish

\* ------------------------------------------- simContinental, knockout stage
ContinentalRoundName(size) ==
    IF size = 2 THEN "Final"
    ELSE IF size = 4 THEN "Semi-finals"
    ELSE IF size = 8 THEN "Quarter-finals"
    ELSE IF size = 16 THEN "Round of 16"
    ELSE "Round of " \o ToString(size)

\* for i in range(0, len(current_teams), 2): the last of an odd list has no
\* opponent and goes through
NeighbourPairs(cur) == [k \in 1..(Len(cur) \div 2) |-> <<cur[2 * k - 1], cur[2 * k]>>]

\* the last of an odd list is dropped
LeftOverDropped(cur) == <<>>

LeftOver(cur) == IF Len(cur) % 2 = 1 THEN <<cur[Len(cur)]>> ELSE <<>>

\* the knockout pool: the top two of each of the g groups, names 1..2g
InitContinental ==
    /\ pcK = "round"
    /\ cont_teams = <<>>
    /\ groups = <<>>
    /\ group_results = <<>>
    /\ \E g \in 2..MaxGroups :
          knockout_qualifiers = [i \in 1..(2 * g) |-> CupTeam(i)]
    /\ current_teams = knockout_qualifiers
    /\ knockout_rounds = <<>>
    /\ cont_winner = None
    /\ continental_comps = <<>>
    /\ cont_key = 0
    /\ cont_all_results = <<>>

ContinentalOff ==
    /\ pcK = "off"
    /\ cont_teams = <<>>
    /\ groups = <<>>
    /\ group_results = <<>>
    /\ knockout_qualifiers = <<>>
    /\ current_teams = <<>>
    /\ knockout_rounds = <<>>
    /\ cont_winner = None
    /\ continental_comps = <<>>
    /\ cont_key = 0
    /\ cont_all_results = <<>>

\* one iteration of "while len(current_teams) > 1"
ContinentalRound ==
    /\ pcK = "round"
    /\ Len(current_teams) > 1
    /\ \E js \in ShuffleDraws(Len(current_teams)) :
         LET cur == Shuffle(current_teams, js)
             pairs == NeighbourPairs(cur)
             ix == [i \in DOMAIN cur |-> i]
         IN \E ds \in [DOMAIN pairs -> MatchDraws] :
              LET ms == [k \in DOMAIN pairs |->
                           CupMatch(cur, 2 * k - 1, 2 * k, ds[k])]
              IN /\ random_calls' = random_calls + ShuffleCalls(Len(current_teams))
                       + SumSeq([k \in DOMAIN ds |-> MatchCalls(ds[k][1], ds[k][2], TRUE)])
                 /\ knockout_rounds' = Append(knockout_rounds,
                       [round_name |-> ContinentalRoundName(Len(cur)),
                        matches |-> [k \in DOMAIN ms |-> Stored(ms[k])]])
                 /\ current_teams' = [k \in DOMAIN ms |-> cur[ms[k].w]] \o LeftOver(cur)
    /\ UNCHANGED <<pcK, knockout_qualifiers, cont_winner>>
    /\ UNCHANGED <<leagueVars, cupVars, groupVars, evolveVars, cupCallVars>>
    /\ UNCHANGED contCallVars
    /\ UNCHANGED worldVars

ContinentalFinish ==
    /\ pcK = "round"
    /\ Len(current_teams) <= 1
    /\ cont_winner' = IF current_teams # <<>> THEN current_teams[1].teamName ELSE None
    /\ pcK' = "done"
    /\ UNCHANGED <<knockout_qualifiers, current_teams, knockout_rounds>>
    /\ UNCHANGED <<leagueVars, cupVars, groupVars, evolveVars, cupCallVars>>
    /\ cont_all_results' = Append(cont_all_results,
          [groups |-> group_results, rounds |-> knockout_rounds, winner |-> cont_winner'])
    /\ UNCHANGED <<continental_comps, cont_key, random_calls>>
    /\ UNCHANGED worldVars

NextContinental == ContinentalRound \/ ContinentalFinish

\* the numbers of teams of the competitions of one call of simContinental
ContinentalCallSizes == {<<7>>, <<7, 8>>, <<8, 0>>, <<0, 0>>, <<3, 7>>}

\* a call of simContinental for several competitions
InitContinentalCall ==
    /\ pcK = "idle"
    /\ \E sizes \in ContinentalCallSizes :
         \E reps \in ContinentalReputations(8) :
            continental_comps =
               [k \in DOMAIN sizes |-> [i \in 1..sizes[k] |-> ContinentalTeam(i, reps[i])]]
    /\ cont_key = 1
    /\ cont_teams = continental_comps[1]
    /\ groups = <<>>
    /\ group_results = <<>>
    /\ knockout_qualifiers = <<>>
    /\ current_teams = <<>>
    /\ knockout_rounds = <<>>
    /\ cont_winner = None
    /\ cont_all_results = <<>>

\* "for comp_id, teams in continental_comps.items()" takes the next one
ContinentalNext ==
    /\ pcK = "done"
    /\ cont_key < Len(continental_comps)
    /\ cont_key' = cont_key + 1
    /\ cont_teams' = continental_comps[cont_key + 1]
    /\ pcK' = "idle"
    /\ UNCHANGED <<groups, group_results, knockout_qualifiers, current_teams,
                   knockout_rounds, cont_winner, continental_comps,
                   cont_all_results, random_calls>>
    /\ UNCHANGED <<leagueVars, cupVars, evolveVars, cupCallVars>>
    /\ UNCHANGED worldVars

\* ------------------------------------- adjust_team_ratings_after_season
\* The source computes with floats; here the quantities are exact fractions
\* num / den.  A float rounding error can at most move a value lying on a
\* rounding tie to the neighbouring integer, which no clamp depends on.
\* max(lo, min(hi, x))
ClampLowOnly(lo, hi, x) == Max2(lo, x)

Clamp(lo, hi, x) == Max2(lo, Min2(hi, x))

\* int(x) for x = num / den, den > 0: truncation towards zero
TruncDiv(num, den) == IF num >= 0 THEN num \div den ELSE -((-num) \div den)

\* round(x) for x = num / den, den > 0: to nearest, ties to even
RoundHalfEven(num, den) ==
    LET q == num \div den
        r == num - q * den
    IN IF 2 * r < den THEN q
       ELSE IF 2 * r > den THEN q + 1
       ELSE IF q % 2 = 0 THEN q ELSE q + 1

Strength(t) == t.attack + t.midfield + t.defense + t.goalkeeping

\* sorted(teams, key = strength, reverse = True): descending and stable
StrengthSorted(ts) ==
    LET s == SortedByKey([i \in DOMAIN ts |-> [k |-> <<-Strength(ts[i])>>, v |-> ts[i]]])
    IN [i \in DOMAIN s |-> s[i].v]

\* {teamId: i + 1 for i, t in enumerate(...)}: the last occurrence counts
PositionsOf(ids) ==
    [tid \in SeqRange(ids) |->
        CHOOSE i \in DOMAIN ids : ids[i] = tid /\ \A j \in DOMAIN ids : ids[j] = tid => j <= i]

\* d.get(tid, n)
GetOr(d, tid, n) == IF tid \in DOMAIN d THEN d[tid] ELSE n

\* base_delta: 8 * pf + 3 * (dev - 0.5) + 2 * (fin_norm - 0.5) + random_factor,
\* amplified in a dramatic season, clamped to [-10, 10] and rounded.
\* Unit 1 / (10000 * m) with m = max(1, n - 1); random_factor and mult are in
\* hundredths.
BaseDelta(t, pd, m, d) ==
    LET base == 800 * pd + m * (30 * t.devRate - 150 + 2 * t.financial - 100)
        total == (base + m * d.random_factor) * (IF d.dramatic THEN d.mult ELSE 100)
    IN RoundHalfEven(Clamp(-100000 * m, 100000 * m, total), 10000 * m)

\* attack, midfield, defense: old + clamp(base_delta + variation, -10, 10)
NewAttribute(old, base_delta, variation) ==
    Clamp(50, 99, old + Clamp(-10, 10, base_delta + variation))

\* goalkeeping changes only when the roll is below 0.20; otherwise the old
\* value is written back as it is
NewGoalkeeping(gk_old, base_delta, d) ==
    IF d.gk_roll
    THEN Clamp(50, 99, gk_old + Clamp(-8, 8, TruncDiv(7 * base_delta + 10 * d.gk_rand, 10)))
    ELSE gk_old

\* the sum of the four terms as it is
FinanceDeltaUnclamped(n, fp, pd, m, d) ==
    TruncDiv(10 * (n - fp + 1), n) + TruncDiv(5 * pd, m) + d.fin_random
      + (IF d.takeover THEN d.boost ELSE 0)

\* prize money + performance + noise (+ takeover boost), clamped to [-20, 30]
FinanceDelta(n, fp, pd, m, d) ==
    LET prize_money_change == TruncDiv(10 * (n - fp + 1), n)
        fin_perf_change == TruncDiv(5 * pd, m)
        fin_delta == prize_money_change + fin_perf_change + d.fin_random
                       + (IF d.takeover THEN d.boost ELSE 0)
    IN Clamp(-20, 30, fin_delta)

NewFinance(old_finance, fin_delta) == Clamp(20, 100, old_finance + fin_delta)

\* int(performance_factor * 3 + uniform(-1.5, 1.5)), clamped to [-8, 8]
ReputationDelta(pd, m, d) == Clamp(-8, 8, TruncDiv(300 * pd + m * d.rep_noise, 100 * m))

NewReputation(old_rep, rep_delta) == Clamp(40, 100, old_rep + rep_delta)

\* the body of "for t in teams" up to the new attribute values
EvolvedTeam(t, n, fp, ep, d) ==
    LET pd == ep - fp
        m == Max2(1, n - 1)
        base_delta == BaseDelta(t, pd, m, d)
    IN [t EXCEPT
          !.attack = NewAttribute(t.attack, base_delta, d.variation[1]),
          !.midfield = NewAttribute(t.midfield, base_delta, d.variation[2]),
          !.defense = NewAttribute(t.defense, base_delta, d.variation[3]),
          !.goalkeeping = NewGoalkeeping(t.goalkeeping, base_delta, d),
          !.financial = NewFinance(t.financial, FinanceDelta(n, fp, pd, m, d)),
          !.reputationFactor = NewReputation(t.reputationFactor, ReputationDelta(pd, m, d))]

\* the snapshot appended whatever the list holds
SnapshotAlways(ratings_list, season, t) ==
    Append(ratings_list,
      [season |-> season, attack |-> t.attack, midfield |-> t.midfield,
       defense |-> t.defense, goalkeeping |-> t.goalkeeping,
       financial |-> t.financial, reputation |-> t.reputationFactor])

\* no snapshot taken
SnapshotSkipped(ratings_list, season, t) == ratings_list

\* the snapshot appended unless the last one already carries this season
WithSnapshot(ratings_list, season, t) ==
    IF ratings_list = <<>> \/ ratings_list[Len(ratings_list)].season # season
    THEN Append(ratings_list,
           [season |-> season, attack |-> t.attack, midfield |-> t.midfield,
            defense |-> t.defense, goalkeeping |-> t.goalkeeping,
            financial |-> t.financial, reputation |-> t.reputationFactor])
    ELSE ratings_list

\* init_team_history: {"name": teamName, "records": [], "ratings": []}
NewHistory(name) == [name |-> name, records |-> <<>>, ratings |-> <<>>]

\* the draws of one team's evolution, sampled at the ends of each
\* distribution: uniform(-2, 2) and uniform(-1.5, 1.5) in hundredths, the
\* dramatic multiplier uniform(1.5, 2) in hundredths, randint(-1, 1) three
\* times, randint(-2, 2), randint(-3, 3), randint(20, 40), and the three
\* rolls (dramatic season, goalkeeping change, takeover)
EvolveDraws ==
    {[random_factor |-> rf, dramatic |-> dr, mult |-> 200,
      variation |-> IF rf > 0 THEN <<1, 0, -1>> ELSE <<-1, 1, 0>>,
      gk_roll |-> g, gk_rand |-> IF dr THEN 2 ELSE -2,
      fin_random |-> IF g THEN 3 ELSE -3,
      takeover |-> tk, boost |-> IF dr THEN 40 ELSE 20,
      rep_noise |-> IF tk THEN 150 ELSE -150] :
        rf \in {-200, 200}, dr \in BOOLEAN, g \in BOOLEAN, tk \in BOOLEAN}

\* the calls of one team's evolution: uniform, random, three randint,
\* random, randint, random, uniform, and one more for the multiplier of a
\* dramatic season, for a goalkeeping change and for a takeover
EvolveCalls(d) ==
    9 + (IF d.dramatic THEN 1 ELSE 0) + (IF d.gk_roll THEN 1 ELSE 0)
      + (IF d.takeover THEN 1 ELSE 0)

\* team data as loaded from teams.json: below, inside and above the ranges
\* the evolution keeps
TeamProfiles ==
    <<[attack |-> 45, midfield |-> 50, defense |-> 52, goalkeeping |-> 45,
       financial |-> 10, reputationFactor |-> 30, devRate |-> 1],
      [attack |-> 70, midfield |-> 75, defense |-> 80, goalkeeping |-> 70,
       financial |-> 50, reputationFactor |-> 60, devRate |-> 5],
      [attack |-> 105, midfield |-> 99, defense |-> 97, goalkeeping |-> 105,
       financial |-> 110, reputationFactor |-> 105, devRate |-> 10]>>

RegistryTeam(i, profile) ==
    [teamId |-> i, teamName |-> i,
     attack |-> profile.attack, midfield |-> profile.midfield,
     defense |-> profile.defense, goalkeeping |-> profile.goalkeeping,
     financial |-> profile.financial, reputationFactor |-> profile.reputationFactor,
     devRate |-> profile.devRate]

\* the finishing orders of n teams
TableOrders(n) == {f \in [1..n -> 1..n] : \A i, j \in 1..n : f[i] = f[j] => i = j}

InitEvolve ==
    /\ pcE = "idle"
    /\ \E n \in 0..MaxEvolveTeams, rot \in 0..(Len(TeamProfiles) - 1) :
          /\ n = 0 => rot = 0
          /\ COMP_TEAMS = [i \in 1..n |->
                RegistryTeam(i, TeamProfiles[((i + rot) % Len(TeamProfiles)) + 1])]
          /\ league_table \in TableOrders(n)
          /\ TEAM_HISTORY = [i \in 1..n |-> NewHistory(i)]
    /\ expected_pos = <<>>
    /\ finish_pos = <<>>
    /\ next_team = 1
    /\ CURRENT_SEASON = 0

EvolveLocalsOff ==
    /\ pcE = "off"
    /\ COMP_TEAMS = <<>>
    /\ league_table = <<>>
    /\ expected_pos = <<>>
    /\ finish_pos = <<>>
    /\ next_team = 1

EvolveOff ==
    /\ EvolveLocalsOff
    /\ TEAM_HISTORY = <<>>
    /\ CURRENT_SEASON = 0

\* entry for one league: expected and actual positions
EvolveStart ==
    /\ pcE = "idle"
    /\ IF COMP_TEAMS = <<>>
       THEN /\ pcE' = "done"
            /\ UNCHANGED <<expected_pos, finish_pos>>
       ELSE /\ pcE' = "teams"
            /\ expected_pos' =
                  PositionsOf([i \in DOMAIN COMP_TEAMS |-> StrengthSorted(COMP_TEAMS)[i].teamId])
            /\ finish_pos' = PositionsOf(league_table)
    /\ next_team' = 1
    /\ UNCHANGED <<COMP_TEAMS, league_table, TEAM_HISTORY, CURRENT_SEASON>>
    /\ UNCHANGED <<leagueVars, cupVars, contVars, groupVars, cupCallVars, contCallVars>>
    /\ UNCHANGED random_calls
    /\ UNCHANGED worldVars

\* one iteration of "for t in teams"
EvolveTeam ==
    /\ pcE = "teams"
    /\ next_team <= Len(COMP_TEAMS)
    /\ \E d \in EvolveDraws :
         LET t == COMP_TEAMS[next_team]
             n == Max2(Len(COMP_TEAMS), 1)
             new == EvolvedTeam(t, n, GetOr(finish_pos, t.teamId, n),
                                GetOr(expected_pos, t.teamId, n), d)
         IN /\ COMP_TEAMS' = [COMP_TEAMS EXCEPT ![next_team] = new]
            /\ random_calls' = random_calls + EvolveCalls(d)
            /\ TEAM_HISTORY' =
                 IF t.teamId \in DOMAIN TEAM_HISTORY
                 THEN [TEAM_HISTORY EXCEPT ![t.teamId].ratings =
                         WithSnapshot(@, CURRENT_SEASON + 1, new)]
                 ELSE TEAM_HISTORY
    /\ next_team' = next_team + 1
    /\ UNCHANGED <<pcE, league_table, expected_pos, finish_pos, CURRENT_SEASON>>
    /\ UNCHANGED <<leagueVars, cupVars, contVars, groupVars, cupCallVars, contCallVars>>
    /\ UNCHANGED worldVars

\* the loop is over: the change report is returned
EvolveFinish ==
    /\ pcE = "teams"
    /\ next_team > Len(COMP_TEAMS)
    /\ pcE' = "done"
    /\ UNCHANGED <<COMP_TEAMS, league_table, expected_pos, finish_pos, next_team,
                   TEAM_HISTORY, CURRENT_SEASON>>
    /\ UNCHANGED <<leagueVars, cupVars, contVars, groupVars, cupCallVars, contCallVars>>
    /\ UNCHANGED random_calls
    /\ UNCHANGED worldVars

NextEvolve == EvolveStart \/ EvolveTeam \/ EvolveFinish

\* ----------------------------------------------------------------- run_season
\* t.get(a, 50)
Attr(t, a) == IF a \in DOMAIN t THEN t[a] ELSE 50

\* a key that leaves the attributes out
CacheKeyIdOnly(t) == <<t.teamId, 50, 50, 50, 50>>

\* cache_key = (tid, attack, midfield, defense, goalkeeping)
CacheKey(t) ==
    <<t.teamId, Attr(t, "attack"), Attr(t, "midfield"), Attr(t, "defense"),
      Attr(t, "goalkeeping")>>

\* 0.35 * atk + 0.35 * mid + 0.2 * dfn + 0.1 * gk, in hundredths
RatingFormula(t) ==
    35 * Attr(t, "attack") + 35 * Attr(t, "midfield") + 20 * Attr(t, "defense")
      + 10 * Attr(t, "goalkeeping")

\* the cache is the set of its entries <<key, rating>>
CachedKeys(cache) == {e[1] : e \in cache}

CacheLookup(cache, key) == (CHOOSE e \in cache : e[1] = key)[2]

\* _team_rating(t): the value returned
TeamRating(cache, t) ==
    IF CacheKey(t) \in CachedKeys(cache) THEN CacheLookup(cache, CacheKey(t))
    ELSE RatingFormula(t)

\* _team_rating(t): the cache it leaves
CacheAfter(cache, t) ==
    IF CacheKey(t) \in CachedKeys(cache) THEN cache
    ELSE cache \cup {<<CacheKey(t), RatingFormula(t)>>}

\* the cache after the teams of ts were rated one after the other
RECURSIVE CacheAfterAll(_, _)
CacheAfterAll(cache, ts) ==
    IF ts = <<>> THEN cache ELSE CacheAfterAll(CacheAfter(cache, Head(ts)), Tail(ts))

\* [dict(t) for t in teams]: the dicts behind the references, copied
TeamCopies(objs, refs) == [i \in DOMAIN refs |-> objs[refs[i]]]

\* the competitions of one format, in the order of COMP_TEAMS
RECURSIVE OfFormat(_, _)
OfFormat(comps, format) ==
    IF comps = <<>> THEN <<>>
    ELSE (IF Head(comps).format = format THEN <<Head(comps)>> ELSE <<>>)
           \o OfFormat(Tail(comps), format)

\* the score lines of the m fixtures of a league that are exercised: all won
\* at home, or won in turn by the home and the away side
LeaguePatterns == {1, 2}

LeagueDraws(p, m) ==
    IF p = 1 THEN [k \in 1..m |-> <<1, 0>>] ELSE [k \in 1..m |-> <<k % 2, (k + 1) % 2>>]

\* simSeason for one league: the sorted table
LeagueTable(ts, ds) ==
    SortLeagueTable(WithGd(PlayGroupFixtures(FreshTable(ts, <<>>),
                                             BuildFixtures(Len(ts)), ds, 1)))

\* simSeason: one result per league, in the order of the input
SimSeasonAll(objs, leagues, p) ==
    [l \in DOMAIN leagues |->
       LET ts == TeamCopies(objs, leagues[l].teams)
       IN [compId |-> leagues[l].compId,
           table |-> LeagueTable(ts, LeagueDraws(p, Len(BuildFixtures(Len(ts)))))]]

\* the teams rated by the matches of a competition: all of them as soon as
\* there are two
Rated(ts) == IF Len(ts) >= 2 THEN ts ELSE <<>>

\* the draws of a cup that are exercised: every shuffle keeps the order or
\* swaps every position with the first, every match has the same samples
CupDraws ==
    {[keep |-> TRUE, d |-> <<1, 0, TRUE>>], [keep |-> FALSE, d |-> <<0, 0, FALSE>>]}

ShuffleDraw(dr, n) == IF dr.keep THEN [i \in 2..n |-> i] ELSE [i \in 2..n |-> 1]

\* while len(current_indices) > 1: the rounds played, the survivor and the
\* values taken from the generator
RECURSIVE MainRounds(_, _, _)
MainRounds(ts, current, dr) ==
    IF Len(current) <= 1 THEN [rounds |-> <<>>, last |-> current, calls |-> 0]
    ELSE LET cur == Shuffle(current, ShuffleDraw(dr, Len(current)))
             bye == PoppedBye(cur)
             pairs == PoppedPairs(cur)
             ms == [k \in DOMAIN pairs |-> CupMatch(ts, pairs[k][1], pairs[k][2], dr.d)]
             rest == MainRounds(ts, bye \o [k \in DOMAIN ms |-> ms[k].w], dr)
         IN [rounds |-> <<[round_name |-> CupRoundName(2 * Len(pairs) + Len(bye)),
                           matches |-> [k \in DOMAIN ms |-> Stored(ms[k])]]>>
                          \o rest.rounds,
             last |-> rest.last,
             calls |-> ShuffleCalls(Len(current))
                         + Len(pairs) * MatchCalls(dr.d[1], dr.d[2], TRUE) + rest.calls]

\* simCups for one cup: its result and the values taken from the generator
CupRun(ts, info, dr) ==
    LET n == Len(ts)
        seeds == SeedOrder(ts, info)
        k == 2 * (n - TargetSize(n))
        q == Shuffle(LastK(seeds, k), ShuffleDraw(dr, k))
        pairs == QualifyingPairs(q)
        ms == [j \in DOMAIN pairs |-> CupMatch(ts, pairs[j][1], pairs[j][2], dr.d)]
        main == IF IsPowerOfTwo(n) THEN MainRounds(ts, seeds, dr)
                ELSE MainRounds(ts, MainDraw(AllButLastK(seeds, k),
                                             [j \in DOMAIN ms |-> ms[j].w]), dr)
        qualifying == IF IsPowerOfTwo(n) THEN <<>>
                      ELSE <<[round_name |-> "Qualifying Round",
                              matches |-> [j \in DOMAIN ms |-> Stored(ms[j])]]>>
    IN IF n = 0 THEN [result |-> EmptyCupResult, calls |-> 0]
       ELSE [result |->
               [rounds |-> qualifying \o main.rounds,
                winner |-> IF main.last # <<>> THEN ts[main.last[1]].teamName ELSE None],
             calls |-> main.calls
                + (IF IsPowerOfTwo(n) THEN 0
                   ELSE ShuffleCalls(k) + Len(pairs) * MatchCalls(dr.d[1], dr.d[2], TRUE))]

\* league_seed_info of simCups: the tier comes from COMP_TIER
SeedInfoOf(comps, results) ==
    SeedInfoFrom([l \in DOMAIN results |->
       [tier |-> (CHOOSE c \in SeqRange(comps) : c.compId = results[l].compId).tier,
        table |-> [i \in DOMAIN results[l].table |-> results[l].table[i].teamId]]])

\* simCups: per cup, in the order of the input, its id, its result and the
\* values it took from the generator
SimCupsAll(objs, comps, cups, results, dr) ==
    [c \in DOMAIN cups |->
       LET run == CupRun(TeamCopies(objs, cups[c].teams), SeedInfoOf(comps, results), dr)
       IN [compId |-> cups[c].compId, result |-> run.result, calls |-> run.calls]]

\* ------------------------------------- adjust_team_ratings_after_season
\* t.get(key, 50) for the four rating attributes
Filled(t) ==
    [f \in DOMAIN t \cup {"attack", "midfield", "defense", "goalkeeping"} |-> Attr(t, f)]

\* "for t in teams" of one league; w is [objs, hist], ctx the league's
\* expected and finishing positions, its size, the draws and the season
RECURSIVE EvolveTeams(_, _, _, _)
EvolveTeams(w, refs, k, ctx) ==
    IF k > Len(refs) THEN w
    ELSE LET t == Filled(w.objs[refs[k]])
             new == EvolvedTeam(t, ctx.n, GetOr(ctx.fp, t.teamId, ctx.n),
                                GetOr(ctx.ep, t.teamId, ctx.n), ctx.d)
         IN EvolveTeams(
              [objs |-> [w.objs EXCEPT ![refs[k]] = new],
               hist |-> IF t.teamId \in DOMAIN w.hist
                        THEN [w.hist EXCEPT ![t.teamId].ratings =
                                WithSnapshot(@, ctx.season, new)]
                        ELSE w.hist],
              refs, k + 1, ctx)

\* COMP_TEAMS.get(comp_id): the references of the competition's teams
TeamsOfComp(comps, comp_id) ==
    LET cs == {c \in DOMAIN comps : comps[c].compId = comp_id}
    IN IF cs = {} THEN <<>> ELSE comps[CHOOSE c \in cs : TRUE].teams

\* "for comp_id, data in league_results.items()" from league l on
RECURSIVE AdjustFrom(_, _, _, _, _, _)
AdjustFrom(w, comps, results, l, d, season) ==
    IF l > Len(results) THEN w
    ELSE LET refs == TeamsOfComp(comps, results[l].compId)
             ts == [i \in DOMAIN refs |-> Filled(w.objs[refs[i]])]
             sorted == StrengthSorted(ts)
             ctx == [ep |-> PositionsOf([i \in DOMAIN sorted |-> sorted[i].teamId]),
                     fp |-> PositionsOf([i \in DOMAIN results[l].table |->
                                            results[l].table[i].teamId]),
                     n |-> Max2(Len(refs), 1), d |-> d, season |-> season]
         IN IF refs = <<>> THEN AdjustFrom(w, comps, results, l + 1, d, season)
            ELSE AdjustFrom(EvolveTeams(w, refs, 1, ctx), comps, results, l + 1, d,
                            season)

\* the registry and the histories after adjust_team_ratings_after_season
AdjustTeamRatings(objs, hist, comps, results, d, season) ==
    AdjustFrom([objs |-> objs, hist |-> hist], comps, results, 1, d, season)

\* the draws of a season's evolution that are exercised: every team of the
\* season evolves on the same draws
SeasonEvolveDraws ==
    {d \in EvolveDraws : d.dramatic = d.takeover /\ d.gk_roll = (d.random_factor > 0)
                          /\ d.dramatic = d.gk_roll}

\* the number of teams evolved
RECURSIVE TeamsEvolved(_, _, _)
TeamsEvolved(comps, results, l) ==
    IF l > Len(results) THEN 0
    ELSE Len(TeamsOfComp(comps, results[l].compId)) + TeamsEvolved(comps, results, l + 1)

\* ------------------------------------------------------------ record_history
\* the stamp of the records and snapshots written before the counter moves
SeasonStampNow(counter) == counter

\* season = CURRENT_SEASON + 1
SeasonStamp(counter) == counter + 1

\* the list restarted with the new record
RestartWith(records, rec) == <<rec>>

\* TEAM_HISTORY[tid]["records"].append(rec)
AppendRecord(records, rec) == Append(records, rec)

\* if tid not in TEAM_HISTORY: continue
WithRecord(hist, tid, rec) ==
    IF tid \in DOMAIN hist
    THEN [hist EXCEPT ![tid].records = AppendRecord(@, rec)]
    ELSE hist

LeagueRecord(season, comp_id, pos, row) ==
    [season |-> season, type |-> "league", compId |-> comp_id, position |-> pos,
     played |-> row.played, points |-> row.points, gd |-> row.gd]

RECURSIVE LeagueRecords(_, _, _, _, _)
LeagueRecords(hist, results, l, pos, season) ==
    IF l > Len(results) THEN hist
    ELSE IF pos > Len(results[l].table) THEN LeagueRecords(hist, results, l + 1, 1, season)
    ELSE LET row == results[l].table[pos]
         IN LeagueRecords(
              WithRecord(hist, row.teamId,
                         LeagueRecord(season, results[l].compId, pos, row)),
              results, l, pos + 1, season)

\* for t_id, t_obj in TEAM_ID_MAP.items(): if teamName == tn: tid = t_id; break
\* (TEAM_ID_MAP is filled in ascending teamId order)
IdOfName(objs, idmap, tn) ==
    LET S == {tid \in DOMAIN idmap : objs[idmap[tid]].teamName = tn}
    IN IF S = {} THEN None ELSE CHOOSE tid \in S : \A u \in S : tid <= u

\* the names of the two sides of the matches of the rounds, in order
RECURSIVE NamesPlayed(_)
NamesPlayed(rnds) ==
    IF rnds = <<>> THEN <<>>
    ELSE LET ms == Head(rnds).matches
             Sides(k) == <<ms[(k + 1) \div 2].home_team, ms[(k + 1) \div 2].away_team>>
                            [2 - (k % 2)]
         IN [k \in 1..(2 * Len(ms)) |->
               [tn |-> Sides(k), rname |-> Head(rnds).round_name]]
            \o NamesPlayed(Tail(rnds))

\* team_best_round: teamId -> the name of the last round the team played,
\* as the pairs <<tid, rname>> in the order the ids were first met
RECURSIVE BestRounds(_, _, _, _)
BestRounds(objs, idmap, played, best) ==
    IF played = <<>> THEN best
    ELSE LET tid == IdOfName(objs, idmap, Head(played).tn)
             at == {i \in DOMAIN best : best[i][1] = tid}
         IN BestRounds(objs, idmap, Tail(played),
              IF tid = None THEN best
              ELSE IF at = {} THEN Append(best, <<tid, Head(played).rname>>)
              ELSE [i \in DOMAIN best |->
                      IF i \in at THEN <<tid, Head(played).rname>> ELSE best[i]])

\* "if tid:" holds for an id that was found and is not 0
Truthy(tid) == tid # None /\ tid # 0

\* team_best_round of the knockout stage of a continental competition: an
\* id enters only "if tid:"
RECURSIVE KnockoutBestRounds(_, _, _, _)
KnockoutBestRounds(objs, idmap, played, best) ==
    IF played = <<>> THEN best
    ELSE LET tid == IdOfName(objs, idmap, Head(played).tn)
             at == {i \in DOMAIN best : best[i][1] = tid}
         IN KnockoutBestRounds(objs, idmap, Tail(played),
              IF ~Truthy(tid) THEN best
              ELSE IF at = {} THEN Append(best, <<tid, Head(played).rname>>)
              ELSE [i \in DOMAIN best |->
                      IF i \in at THEN <<tid, Head(played).rname>> ELSE best[i]])

CupRecord(season, comp_id, rname, is_winner) ==
    [season |-> season, type |-> "cup", compId |-> comp_id, best_round |-> rname,
     winner |-> is_winner]

\* for tid, rname in team_best_round.items(): the cup record of each team
RECURSIVE CupRecordsOf(_, _, _, _, _, _, _)
CupRecordsOf(hist, objs, idmap, best, comp_id, winner, season) ==
    IF best = <<>> THEN hist
    ELSE LET tid == Head(best)[1]
             tname == objs[idmap[tid]].teamName
         IN CupRecordsOf(
              WithRecord(hist, tid, CupRecord(season, comp_id, Head(best)[2], tname = winner)),
              objs, idmap, Tail(best), comp_id, winner, season)

\* "for comp_id, data in cup_results.items()" from cup c on
RECURSIVE CupRecords(_, _, _, _, _, _)
CupRecords(hist, objs, idmap, cups, c, season) ==
    IF c > Len(cups) THEN hist
    ELSE IF cups[c].result.rounds = <<>> THEN CupRecords(hist, objs, idmap, cups, c + 1, season)
    ELSE CupRecords(
           CupRecordsOf(hist, objs, idmap,
                        BestRounds(objs, idmap, NamesPlayed(cups[c].result.rounds), <<>>),
                        cups[c].compId, cups[c].result.winner, season),
           objs, idmap, cups, c + 1, season)

GroupRecord(season, comp_id, qualified) ==
    [season |-> season, type |-> "continental", compId |-> comp_id,
     stage |-> "Group Stage", qualified |-> qualified, winner |-> FALSE]

\* the rows of the group tables, each with its place in its group
RECURSIVE GroupRows(_)
GroupRows(gs) ==
    IF gs = <<>> THEN <<>>
    ELSE LET tbl == Head(gs).table
             \* group["table"].index(row) + 1
             IndexOf(row) == CHOOSE j \in DOMAIN tbl :
                               tbl[j] = row /\ \A i \in DOMAIN tbl : tbl[i] = row => j <= i
         IN [k \in DOMAIN tbl |-> [row |-> tbl[k], pos |-> IndexOf(tbl[k])]]
              \o GroupRows(Tail(gs))

RECURSIVE GroupRecords(_, _, _, _)
GroupRecords(hist, rows, comp_id, season) ==
    IF rows = <<>> THEN hist
    ELSE GroupRecords(
           WithRecord(hist, Head(rows).row.teamId,
                      GroupRecord(season, comp_id, Head(rows).pos <= 2)),
           Tail(rows), comp_id, season)

KnockoutRecord(season, comp_id, rname, is_winner) ==
    [season |-> season, type |-> "continental", compId |-> comp_id, stage |-> rname,
     winner |-> is_winner]

\* existing[0]["stage"] = rname; existing[0]["winner"] = is_winner
Restaged(rec, rname, is_winner) ==
    [f \in DOMAIN rec \cup {"stage", "winner"} |->
       IF f = "stage" THEN rname ELSE IF f = "winner" THEN is_winner ELSE rec[f]]

\* the knockout record of one team: the team's first record of this season
\* and competition is rewritten, or a new record is appended
WithKnockoutRecord(hist, tid, season, comp_id, rname, is_winner) ==
    IF tid \notin DOMAIN hist THEN hist
    ELSE LET recs == hist[tid].records
             existing == {i \in DOMAIN recs :
                            recs[i].season = season /\ recs[i].compId = comp_id}
             first == CHOOSE i \in existing : \A j \in existing : i <= j
         IN IF existing # {}
            THEN [hist EXCEPT ![tid].records[first] = Restaged(@, rname, is_winner)]
            ELSE WithRecord(hist, tid, KnockoutRecord(season, comp_id, rname, is_winner))

RECURSIVE KnockoutRecordsOf(_, _, _, _, _, _, _)
KnockoutRecordsOf(hist, objs, idmap, best, comp_id, winner, season) ==
    IF best = <<>> THEN hist
    ELSE LET tid == Head(best)[1]
         IN KnockoutRecordsOf(
              WithKnockoutRecord(hist, tid, season, comp_id, Head(best)[2],
                                 objs[idmap[tid]].teamName = winner),
              objs, idmap, Tail(best), comp_id, winner, season)

\* "for comp_id, data in continental_results.items()" from competition c on
RECURSIVE ContinentalRecords(_, _, _, _, _, _)
ContinentalRecords(hist, objs, idmap, conts, c, season) ==
    IF c > Len(conts) THEN hist
    ELSE LET res == conts[c].result
             groups_of == IF "groups" \in DOMAIN res THEN res.groups ELSE <<>>
             grouped == GroupRecords(hist, GroupRows(groups_of), conts[c].compId, season)
         IN ContinentalRecords(
              KnockoutRecordsOf(grouped, objs, idmap,
                                KnockoutBestRounds(objs, idmap, NamesPlayed(res.rounds), <<>>),
                                conts[c].compId, res.winner, season),
              objs, idmap, conts, c + 1, season)

\* record_history: league, cup and continental records, in this order
RecordHistory(hist, objs, idmap, leagues, cups, conts, season) ==
    ContinentalRecords(
      CupRecords(LeagueRecords(hist, leagues, 1, 1, season), objs, idmap, cups, 1, season),
      objs, idmap, conts, 1, season)

\* ------------------------------------------------------ load_world, run_season
\* the team dicts of teams.json: n teams of the first league and, when a
\* team is listed under a second league as well, one more dict with teamId 1
WorldObjects(n, shared) ==
    [i \in 1..(n + (IF shared THEN 1 ELSE 0)) |->
       IF i <= n THEN RegistryTeam(i, TeamProfiles[(i % Len(TeamProfiles)) + 1])
       ELSE RegistryTeam(1, TeamProfiles[1])]

\* load_continent: a league gets the list filed under its id, the cup the
\* dicts of all lists; a competition without teams is not registered
WorldComps(n, shared) ==
    LET first == [compId |-> 1, format |-> 0, tier |-> 1, teams |-> [i \in 1..n |-> i]]
        second == [compId |-> 3, format |-> 0, tier |-> 2, teams |-> <<n + 1>>]
        cup == [compId |-> 2, format |-> 1, tier |-> 99,
                teams |-> [i \in 1..(n + (IF shared THEN 1 ELSE 0)) |-> i]]
    IN (IF n > 0 THEN <<first>> ELSE <<>>)
         \o (IF shared THEN <<second>> ELSE <<>>)
         \o (IF cup.teams # <<>> THEN <<cup>> ELSE <<>>)

\* TEAM_ID_MAP[tid] = t for the teams of a league; for the teams of a cup
\* only if tid is not in TEAM_ID_MAP yet
RECURSIVE RegisterTeams(_, _, _, _)
RegisterTeams(objs, refs, map, overwrite) ==
    IF refs = <<>> THEN map
    ELSE LET tid == objs[Head(refs)].teamId
         IN RegisterTeams(objs, Tail(refs),
              IF tid \in DOMAIN map /\ ~overwrite THEN map
              ELSE [t \in DOMAIN map \cup {tid} |-> IF t = tid THEN Head(refs) ELSE map[t]],
              overwrite)

RECURSIVE IdMapFrom(_, _, _)
IdMapFrom(objs, comps, map) ==
    IF comps = <<>> THEN map
    ELSE IdMapFrom(objs, Tail(comps),
                   RegisterTeams(objs, Head(comps).teams, map, Head(comps).format = 0))

\* no export file has been written
NoFile == <<>>

\* the GUI after App.__init__: no simulation, no thread, nothing posted
GuiIdle ==
    /\ simulation_running = FALSE
    /\ worker_threads = 0
    /\ complete_pending = 0
    /\ export_file = NoFile
    /\ clicks = 0
    /\ handler = "none"
    /\ request = [start |-> 0, seasons |-> 0, imported |-> FALSE]

\* no Player object
PlayerOff == player = <<>>

\* the world after load_world(): no season played, no rating cached
WorldLoaded ==
    /\ stage = "idle"
    /\ TEAM_ID_MAP = IdMapFrom(TEAM_OBJECTS, COMPS, <<>>)
    /\ TEAM_HISTORY = [tid \in DOMAIN TEAM_ID_MAP |->
                         NewHistory(TEAM_OBJECTS[TEAM_ID_MAP[tid]].teamName)]
    /\ CURRENT_SEASON = 0
    /\ LEAGUE_HISTORY = <<>>
    /\ CUP_HISTORY = <<>>
    /\ RATING_CACHE = {}
    /\ run_cups = TRUE
    /\ league_results = <<>>
    /\ cup_results = <<>>
    /\ continental_results = <<>>
    /\ rated = <<>>
    /\ rating = 0
    /\ GuiIdle
    /\ PlayerOff

InitWorld ==
    /\ \E n \in 0..MaxWorldTeams, shared \in BOOLEAN :
          /\ TEAM_OBJECTS = WorldObjects(n, shared)
          /\ COMPS = WorldComps(n, shared)
    /\ WorldLoaded
    /\ seasons_left = MaxSeasons

\* a teams.json entry without defense and goalkeeping
SparseTeam(i, profile) ==
    [teamId |-> i, teamName |-> i,
     attack |-> profile.attack, midfield |-> profile.midfield,
     financial |-> profile.financial, reputationFactor |-> profile.reputationFactor,
     devRate |-> profile.devRate]

\* a league and its cup; every second team lacks attributes
RatingObjects(n) ==
    [i \in 1..n |-> IF i % 2 = 1 THEN RegistryTeam(i, TeamProfiles[2])
                    ELSE SparseTeam(i, TeamProfiles[2])]

InitRatingWorld ==
    /\ \E n \in 1..MaxWorldTeams :
          /\ TEAM_OBJECTS = RatingObjects(n)
          /\ COMPS = WorldComps(n, FALSE)
    /\ WorldLoaded
    /\ seasons_left = MaxSeasons

\* no world is loaded
WorldParked ==
    /\ stage = "off"
    /\ TEAM_OBJECTS = <<>>
    /\ COMPS = <<>>
    /\ TEAM_ID_MAP = <<>>
    /\ LEAGUE_HISTORY = <<>>
    /\ CUP_HISTORY = <<>>
    /\ RATING_CACHE = {}
    /\ run_cups = FALSE
    /\ league_results = <<>>
    /\ cup_results = <<>>
    /\ continental_results = <<>>
    /\ rated = <<>>
    /\ rating = 0
    /\ seasons_left = 0
    /\ GuiIdle

WorldOff == WorldParked /\ PlayerOff

\* ratings evolve before the cups are played
StageEvolveFirst(st) ==
    IF st = "idle" THEN "league"
    ELSE IF st = "league" THEN "evolve"
    ELSE IF st = "evolve" THEN "cup"
    ELSE IF st = "cup" THEN "continental"
    ELSE IF st = "continental" THEN "history"
    ELSE IF st = "history" THEN "advance"
    ELSE "idle"

\* the statements of run_season in the order they are written
NextStage(st) ==
    IF st = "idle" THEN "league"
    ELSE IF st = "league" THEN "cup"
    ELSE IF st = "cup" THEN "continental"
    ELSE IF st = "continental" THEN "evolve"
    ELSE IF st = "evolve" THEN "history"
    ELSE IF st = "history" THEN "advance"
    ELSE "idle"

\* the teams rated by the matches of the competitions, in order
RECURSIVE RatedIn(_, _)
RatedIn(objs, comps) ==
    IF comps = <<>> THEN <<>>
    ELSE Rated(TeamCopies(objs, Head(comps).teams)) \o RatedIn(objs, Tail(comps))

\* the values taken from the generator by the fixtures of the leagues
LeagueCalls(leagues, p) ==
    SumSeq([l \in DOMAIN leagues |->
       LET m == Len(BuildFixtures(Len(leagues[l].teams)))
       IN SumSeq([k \in 1..m |->
                    MatchCalls(LeagueDraws(p, m)[k][1], LeagueDraws(p, m)[k][2], FALSE)])])

\* entry of run_season: the cache is cleared, the inputs are prepared
RunSeasonEntry ==
    /\ stage = "idle"
    /\ seasons_left > 0
    /\ CURRENT_SEASON < MaxSeasons
    /\ stage' = NextStage(stage)
    /\ RATING_CACHE' = {}
    /\ run_cups' \in BOOLEAN
    /\ league_results' = <<>>
    /\ cup_results' = <<>>
    /\ continental_results' = <<>>
    /\ random_calls' = 0
    /\ UNCHANGED <<TEAM_OBJECTS, COMPS, TEAM_ID_MAP, LEAGUE_HISTORY, CUP_HISTORY,
                   TEAM_HISTORY, CURRENT_SEASON>>
    /\ UNCHANGED <<pcE, COMP_TEAMS, league_table, expected_pos, finish_pos, next_team>>
    /\ UNCHANGED <<leagueVars, cupVars, contVars, groupVars, cupCallVars, contCallVars>>
    /\ UNCHANGED <<rated, rating>>
    /\ UNCHANGED <<seasons_left, guiVars, player>>

\* league_results = simSeason(league_input)
LeagueStage ==
    /\ stage = "league"
    /\ stage' = NextStage(stage)
    /\ \E p \in LeaguePatterns :
         /\ league_results' = SimSeasonAll(TEAM_OBJECTS, OfFormat(COMPS, 0), p)
         /\ random_calls' = random_calls + LeagueCalls(OfFormat(COMPS, 0), p)
    /\ RATING_CACHE' = CacheAfterAll(RATING_CACHE, RatedIn(TEAM_OBJECTS, OfFormat(COMPS, 0)))
    /\ UNCHANGED <<TEAM_OBJECTS, COMPS, TEAM_ID_MAP, LEAGUE_HISTORY, CUP_HISTORY,
                   run_cups, cup_results, continental_results, TEAM_HISTORY,
                   CURRENT_SEASON>>
    /\ UNCHANGED <<pcE, COMP_TEAMS, league_table, expected_pos, finish_pos, next_team>>
    /\ UNCHANGED <<leagueVars, cupVars, contVars, groupVars, cupCallVars, contCallVars>>
    /\ UNCHANGED <<rated, rating>>
    /\ UNCHANGED <<seasons_left, guiVars, player>>

\* cup_results = simCups(cup_input, league_results) if run_cups and cup_input
CupStage ==
    /\ stage = "cup"
    /\ stage' = NextStage(stage)
    /\ IF run_cups /\ OfFormat(COMPS, 1) # <<>>
       THEN \E dr \in CupDraws :
              LET runs == SimCupsAll(TEAM_OBJECTS, COMPS, OfFormat(COMPS, 1),
                                     league_results, dr)
              IN /\ cup_results' = [c \in DOMAIN runs |->
                       [compId |-> runs[c].compId, result |-> runs[c].result]]
                 /\ random_calls' = random_calls
                                      + SumSeq([c \in DOMAIN runs |-> runs[c].calls])
                 /\ RATING_CACHE' = CacheAfterAll(RATING_CACHE,
                                       RatedIn(TEAM_OBJECTS, OfFormat(COMPS, 1)))
       ELSE /\ cup_results' = <<>>
            /\ UNCHANGED <<random_calls, RATING_CACHE>>
    /\ UNCHANGED <<TEAM_OBJECTS, COMPS, TEAM_ID_MAP, LEAGUE_HISTORY, CUP_HISTORY,
                   run_cups, league_results, continental_results, TEAM_HISTORY,
                   CURRENT_SEASON>>
    /\ UNCHANGED <<pcE, COMP_TEAMS, league_table, expected_pos, finish_pos, next_team>>
    /\ UNCHANGED <<leagueVars, cupVars, contVars, groupVars, cupCallVars, contCallVars>>
    /\ UNCHANGED <<rated, rating>>
    /\ UNCHANGED <<seasons_left, guiVars, player>>

\* continental_results = {}: load_continent registers a continental
\* competition only for the teams qualify_teams_for_continental returns, and
\* it returns none while LEAGUE_HISTORY is empty, as it is when the world is
\* loaded; continental_input is empty in every season
ContinentalStage ==
    /\ stage = "continental"
    /\ OfFormat(COMPS, 5) = <<>>
    /\ stage' = NextStage(stage)
    /\ continental_results' = <<>>
    /\ UNCHANGED <<TEAM_OBJECTS, COMPS, TEAM_ID_MAP, LEAGUE_HISTORY, CUP_HISTORY,
                   RATING_CACHE, run_cups, league_results, cup_results, TEAM_HISTORY,
                   CURRENT_SEASON, random_calls>>
    /\ UNCHANGED <<pcE, COMP_TEAMS, league_table, expected_pos, finish_pos, next_team>>
    /\ UNCHANGED <<leagueVars, cupVars, contVars, groupVars, cupCallVars, contCallVars>>
    /\ UNCHANGED <<rated, rating>>
    /\ UNCHANGED <<seasons_left, guiVars, player>>

\* change_report = adjust_team_ratings_after_season(league_results)
EvolveStage ==
    /\ stage = "evolve"
    /\ stage' = NextStage(stage)
    /\ \E d \in SeasonEvolveDraws :
         LET w == AdjustTeamRatings(TEAM_OBJECTS, TEAM_HISTORY, COMPS, league_results, d,
                                    SeasonStamp(CURRENT_SEASON))
         IN /\ TEAM_OBJECTS' = w.objs
            /\ TEAM_HISTORY' = w.hist
            /\ random_calls' = random_calls
                 + EvolveCalls(d) * TeamsEvolved(COMPS, league_results, 1)
    /\ UNCHANGED <<COMPS, TEAM_ID_MAP, LEAGUE_HISTORY, CUP_HISTORY, RATING_CACHE,
                   run_cups, league_results, cup_results, continental_results,
                   CURRENT_SEASON>>
    /\ UNCHANGED <<pcE, COMP_TEAMS, league_table, expected_pos, finish_pos, next_team>>
    /\ UNCHANGED <<leagueVars, cupVars, contVars, groupVars, cupCallVars, contCallVars>>
    /\ UNCHANGED <<rated, rating>>
    /\ UNCHANGED <<seasons_left, guiVars, player>>

\* record_history(league_results, cup_results, continental_results)
HistoryStage ==
    /\ stage \in {"history", "readjusted"}
    /\ stage' = NextStage("history")
    /\ TEAM_HISTORY' = RecordHistory(TEAM_HISTORY, TEAM_OBJECTS, TEAM_ID_MAP,
                                     league_results, cup_results, continental_results,
                                     SeasonStamp(CURRENT_SEASON))
    /\ UNCHANGED <<TEAM_OBJECTS, COMPS, TEAM_ID_MAP, LEAGUE_HISTORY, CUP_HISTORY,
                   RATING_CACHE, run_cups, league_results, cup_results,
                   continental_results, CURRENT_SEASON, random_calls>>
    /\ UNCHANGED <<pcE, COMP_TEAMS, league_table, expected_pos, finish_pos, next_team>>
    /\ UNCHANGED <<leagueVars, cupVars, contVars, groupVars, cupCallVars, contCallVars>>
    /\ UNCHANGED <<rated, rating>>
    /\ UNCHANGED <<seasons_left, guiVars, player>>

\* the results appended only when a competition was played
HistoryAppendPlayed(history, results) ==
    IF results = <<>> THEN history ELSE Append(history, results)

\* LEAGUE_HISTORY.append(league_results), CUP_HISTORY.append(cup_results)
HistoryAppend(history, results) == Append(history, results)

\* CURRENT_SEASON += 1; the results join the histories; run_season returns
AdvanceStage ==
    /\ stage = "advance"
    /\ stage' = NextStage(stage)
    /\ CURRENT_SEASON' = CURRENT_SEASON + 1
    /\ LEAGUE_HISTORY' = HistoryAppend(LEAGUE_HISTORY, league_results)
    /\ CUP_HISTORY' = HistoryAppend(CUP_HISTORY, cup_results)
    /\ league_results' = <<>>
    /\ cup_results' = <<>>
    /\ continental_results' = <<>>
    /\ UNCHANGED <<TEAM_OBJECTS, COMPS, TEAM_ID_MAP, RATING_CACHE, run_cups,
                   TEAM_HISTORY, random_calls>>
    /\ UNCHANGED <<pcE, COMP_TEAMS, league_table, expected_pos, finish_pos, next_team>>
    /\ UNCHANGED <<leagueVars, cupVars, contVars, groupVars, cupCallVars, contCallVars>>
    /\ UNCHANGED <<rated, rating>>
    /\ seasons_left' = seasons_left - 1
    /\ UNCHANGED <<guiVars, player>>

NextSeason ==
    \/ RunSeasonEntry
    \/ LeagueStage
    \/ CupStage
    \/ ContinentalStage
    \/ EvolveStage
    \/ HistoryStage
    \/ AdvanceStage

\* a caller of the module evolves the ratings once more on the results of
\* the season, before the counter has moved
AdjustAgain ==
    /\ stage = "history"
    /\ stage' = "readjusted"
    /\ \E d \in SeasonEvolveDraws :
         LET w == AdjustTeamRatings(TEAM_OBJECTS, TEAM_HISTORY, COMPS, league_results, d,
                                    SeasonStamp(CURRENT_SEASON))
         IN /\ TEAM_OBJECTS' = w.objs
            /\ TEAM_HISTORY' = w.hist
            /\ random_calls' = random_calls
                 + EvolveCalls(d) * TeamsEvolved(COMPS, league_results, 1)
    /\ UNCHANGED <<COMPS, TEAM_ID_MAP, LEAGUE_HISTORY, CUP_HISTORY, RATING_CACHE,
                   run_cups, league_results, cup_results, continental_results,
                   CURRENT_SEASON>>
    /\ UNCHANGED <<pcE, COMP_TEAMS, league_table, expected_pos, finish_pos, next_team>>
    /\ UNCHANGED <<leagueVars, cupVars, contVars, groupVars, cupCallVars, contCallVars>>
    /\ UNCHANGED <<rated, rating>>
    /\ UNCHANGED <<seasons_left, guiVars, player>>

\* _team_rating(t) called on a registry dict outside the matches of a
\* season: between the seasons, or while a season's later stages run
RatingCall ==
    /\ stage \notin {"off", "league"}
    /\ \E r \in DOMAIN TEAM_OBJECTS :
         /\ rated' = <<TEAM_OBJECTS[r]>>
         /\ rating' = TeamRating(RATING_CACHE, TEAM_OBJECTS[r])
         /\ RATING_CACHE' = CacheAfter(RATING_CACHE, TEAM_OBJECTS[r])
    /\ UNCHANGED <<stage, TEAM_OBJECTS, COMPS, TEAM_ID_MAP, LEAGUE_HISTORY, CUP_HISTORY,
                   run_cups, league_results, cup_results, continental_results,
                   TEAM_HISTORY, CURRENT_SEASON, random_calls>>
    /\ UNCHANGED <<pcE, COMP_TEAMS, league_table, expected_pos, finish_pos, next_team>>
    /\ UNCHANGED <<leagueVars, cupVars, contVars, groupVars, cupCallVars, contCallVars>>
    /\ UNCHANGED <<seasons_left, guiVars, player>>

\* ---------------------------------------------------------- specifications
\* one league, no other competition running
InitLeagueOnly ==
    InitLeague /\ CupOff /\ ContinentalOff /\ EvolveOff /\ WorldOff /\ GeneratorFresh

SpecLeague == InitLeagueOnly /\ [][NextLeague]_vars

\* one knockout competition: a cup, or the knockout stage of a continental
\* competition
InitKnockout ==
    /\ LeagueOff
    /\ WorldOff
    /\ GeneratorFresh
    /\ EvolveOff
    /\ \/ InitCup /\ ContinentalOff
       \/ CupOff /\ InitContinental

NextKnockout == NextCup \/ NextContinental

SpecKnockout == InitKnockout /\ [][NextKnockout]_vars

\* one rating evolution of one league
InitEvolveOnly ==
    LeagueOff /\ CupOff /\ ContinentalOff /\ InitEvolve /\ WorldOff /\ GeneratorFresh

SpecEvolve == InitEvolveOnly /\ [][NextEvolve]_vars

\* one call of simCups or of simContinental for several competitions
InitCalls ==
    /\ LeagueOff
    /\ WorldOff
    /\ EvolveOff
    /\ GeneratorFresh
    /\ \/ InitCupCall /\ ContinentalOff
       \/ CupOff /\ InitContinentalCall

NextCalls == NextCup \/ CupNext \/ NextGroups \/ NextContinental \/ ContinentalNext

SpecCalls == InitCalls /\ [][NextCalls]_vars

\* the group stage of one continental competition, up to the qualifiers
InitGroupsOnly ==
    LeagueOff /\ CupOff /\ EvolveOff /\ InitGroups /\ WorldOff /\ GeneratorFresh

SpecGroups == InitGroupsOnly /\ [][NextGroups]_vars

\* the seasons of a loaded world
InitSeason ==
    LeagueOff /\ CupOff /\ ContinentalOff /\ EvolveLocalsOff /\ InitWorld /\ GeneratorFresh

SpecSeason == InitSeason /\ [][NextSeason]_vars

\* the seasons of a loaded world, the ratings being evolved by other callers
\* as well
NextAdjust == NextSeason \/ AdjustAgain

SpecAdjust == InitSeason /\ [][NextAdjust]_vars

\* the seasons of a loaded world, the rating being asked for by other
\* callers as well
InitRating ==
    LeagueOff /\ CupOff /\ ContinentalOff /\ EvolveLocalsOff /\ InitRatingWorld
      /\ GeneratorFresh

NextRating == NextSeason \/ RatingCall

SpecRating == InitRating /\ [][NextRating]_vars

\* one continental competition and the history records it leaves: the
\* entrants carry the ids 0..n-1 and the names 1..n
RecordedTeam(i, rep) == [teamId |-> i - 1, teamName |-> i, reputationFactor |-> rep]

ContinentalId == 4

InitTrophyWorld ==
    /\ stage = "continental"
    /\ \E n \in 8..MaxRecordedTeams :
         \E reps \in ContinentalReputations(n) :
            /\ TEAM_OBJECTS = [i \in 1..n |-> RecordedTeam(i, reps[i])]
            /\ COMPS = <<[compId |-> ContinentalId, format |-> 5, tier |-> 100,
                          teams |-> [i \in 1..n |-> i]]>>
    /\ TEAM_ID_MAP = [tid \in 0..(Len(TEAM_OBJECTS) - 1) |-> tid + 1]
    /\ TEAM_HISTORY = [tid \in DOMAIN TEAM_ID_MAP |->
                         NewHistory(TEAM_OBJECTS[TEAM_ID_MAP[tid]].teamName)]
    /\ CURRENT_SEASON = 0
    /\ LEAGUE_HISTORY = <<>>
    /\ CUP_HISTORY = <<>>
    /\ RATING_CACHE = {}
    /\ run_cups = TRUE
    /\ league_results = <<>>
    /\ cup_results = <<>>
    /\ continental_results = <<>>
    /\ rated = <<>>
    /\ rating = 0
    /\ seasons_left = 1
    /\ GuiIdle
    /\ PlayerOff
    /\ pcK = "idle"
    /\ cont_teams = TEAM_OBJECTS
    /\ groups = <<>>
    /\ group_results = <<>>
    /\ knockout_qualifiers = <<>>
    /\ current_teams = <<>>
    /\ knockout_rounds = <<>>
    /\ cont_winner = None
    /\ continental_comps = <<cont_teams>>
    /\ cont_key = 1
    /\ cont_all_results = <<>>

InitTrophies ==
    LeagueOff /\ CupOff /\ EvolveLocalsOff /\ InitTrophyWorld /\ GeneratorFresh

\* run_season once simContinental has returned: no league was played, so
\* no rating evolves, and record_history files the continental results
RecordContinental ==
    /\ stage = "continental"
    /\ pcK = "done"
    /\ stage' = "advance"
    /\ continental_results' = [c \in DOMAIN cont_all_results |->
                                 [compId |-> ContinentalId, result |-> cont_all_results[c]]]
    /\ TEAM_HISTORY' = RecordHistory(TEAM_HISTORY, TEAM_OBJECTS, TEAM_ID_MAP,
                                     league_results, cup_results, continental_results',
                                     SeasonStamp(CURRENT_SEASON))
    /\ UNCHANGED <<TEAM_OBJECTS, COMPS, TEAM_ID_MAP, LEAGUE_HISTORY, CUP_HISTORY,
                   RATING_CACHE, run_cups, league_results, cup_results,
                   CURRENT_SEASON, random_calls>>
    /\ UNCHANGED <<pcE, COMP_TEAMS, league_table, expected_pos, finish_pos, next_team>>
    /\ UNCHANGED <<leagueVars, cupVars, contVars, groupVars, cupCallVars, contCallVars>>
    /\ UNCHANGED <<rated, rating>>
    /\ UNCHANGED <<seasons_left, guiVars, player>>

NextTrophies == NextGroups \/ NextContinental \/ RecordContinental

SpecTrophies == InitTrophies /\ [][NextTrophies]_vars

\* ------------------------------------- export_season_results, import_...
\* str(k), the JSON object key json.dump writes for the int key k: a value
\* apart from every id the program holds (ids stay below 1000)
Str(k) == k + 1000

\* int(tid_str)
IntOf(key) == key - 1000

\* a dict with int keys as json.load returns it after json.dump
JsonKeys(f) ==
    IF DOMAIN f = {} THEN <<>>
    ELSE [key \in {Str(k) : k \in DOMAIN f} |-> f[IntOf(key)]]

\* a list of result dicts (competition id -> result) after json.dump and
\* json.load
JsonResults(history) ==
    [h \in DOMAIN history |->
       [c \in DOMAIN history[h] |-> [history[h][c] EXCEPT !.compId = Str(@)]]]

\* export_data as json.load reads it back from the file
ExportData(season, league_history, cup_history, team_history, idmap, objs) ==
    [season |-> season,
     league_history |-> JsonResults(league_history),
     cup_history |-> JsonResults(cup_history),
     team_history |-> JsonKeys(team_history),
     team_data |-> JsonKeys([tid \in DOMAIN idmap |-> objs[idmap[tid]]])]

\* dict.update
Updated(old, new) ==
    [f \in DOMAIN old \cup DOMAIN new |-> IF f \in DOMAIN new THEN new[f] ELSE old[f]]

\* for tid_str, team_data in imported_teams.items(): tid = int(tid_str);
\* if tid in TEAM_ID_MAP: TEAM_ID_MAP[tid].update(team_data)
MergedTeams(objs, idmap, imported_teams) ==
    [r \in DOMAIN objs |->
       LET tids == {tid \in DOMAIN idmap : idmap[tid] = r /\ Str(tid) \in DOMAIN imported_teams}
       IN IF tids = {} THEN objs[r]
          ELSE Updated(objs[r], imported_teams[Str(CHOOSE tid \in tids : TRUE)])]

\* --------------------------------------------------------- the GUI (gui.py)
\* what the seasons entry may hold: no number, or a number
SeasonsEntries ==
    {[valid |-> FALSE, value |-> 0], [valid |-> TRUE, value |-> 0],
     [valid |-> TRUE, value |-> 1], [valid |-> TRUE, value |-> 2]}

\* seasons = int(entry); seasons <= 0 or a ValueError give 1
SeasonsOf(entry) ==
    IF ~entry.valid THEN 1 ELSE IF entry.value <= 0 THEN 1 ELSE entry.value

\* no request is ever turned down
NeverBusy(flag) == FALSE

\* if self.simulation_running: showwarning(...); return
SimulationBusy(flag) == flag

\* what the GUI handlers leave alone
engineVars == <<leagueVars, cupVars, contVars, groupVars, cupCallVars, contCallVars,
                pcE, COMP_TEAMS, league_table, expected_pos, finish_pos, next_team,
                random_calls, player>>

seasonLocals == <<stage, COMPS, TEAM_ID_MAP, RATING_CACHE, run_cups, league_results,
                  cup_results, continental_results, rated, rating>>

simGlobals == <<CURRENT_SEASON, LEAGUE_HISTORY, CUP_HISTORY, TEAM_HISTORY, TEAM_OBJECTS>>

\* _run_simulation, on the main thread: turned down while a simulation
\* runs; otherwise the flag is set and the worker thread is started
RunSimulation ==
    /\ clicks < MaxClicks
    /\ clicks' = clicks + 1
    /\ IF SimulationBusy(simulation_running)
       THEN /\ handler' = "rejected"
            /\ UNCHANGED <<simulation_running, worker_threads, seasons_left, request>>
       ELSE \E entry \in SeasonsEntries :
              /\ CURRENT_SEASON + SeasonsOf(entry) <= MaxSeasons
              /\ simulation_running' = TRUE
              /\ worker_threads' = worker_threads + 1
              /\ seasons_left' = SeasonsOf(entry)
              /\ request' = [start |-> CURRENT_SEASON, seasons |-> SeasonsOf(entry),
                             imported |-> FALSE]
              /\ handler' = "started"
    /\ UNCHANGED <<complete_pending, export_file>>
    /\ UNCHANGED <<engineVars, seasonLocals, simGlobals>>

\* the end of simulate(): the loop is over, _simulation_complete is posted
\* to the main thread and the thread ends
WorkerExit ==
    /\ worker_threads > 0
    /\ stage = "idle"
    /\ seasons_left = 0
    /\ complete_pending' = complete_pending + 1
    /\ worker_threads' = worker_threads - 1
    /\ UNCHANGED <<simulation_running, export_file, clicks, handler, request, seasons_left>>
    /\ UNCHANGED <<engineVars, seasonLocals, simGlobals>>

\* _simulation_complete, on the main thread
SimulationComplete ==
    /\ complete_pending > 0
    /\ complete_pending' = complete_pending - 1
    /\ simulation_running' = FALSE
    /\ handler' = "complete"
    /\ UNCHANGED <<worker_threads, export_file, clicks, request, seasons_left>>
    /\ UNCHANGED <<engineVars, seasonLocals, simGlobals>>

\* _export_results, on the main thread, whatever the worker is doing
ExportResults ==
    /\ clicks < MaxClicks
    /\ clicks' = clicks + 1
    /\ export_file' = ExportData(CURRENT_SEASON, LEAGUE_HISTORY, CUP_HISTORY, TEAM_HISTORY,
                                 TEAM_ID_MAP, TEAM_OBJECTS)
    /\ handler' = "export"
    /\ UNCHANGED <<simulation_running, worker_threads, complete_pending, request,
                   seasons_left>>
    /\ UNCHANGED <<engineVars, seasonLocals, simGlobals>>

\* _import_results, on the main thread, whatever the worker is doing: the
\* globals are rebound to what the file holds, the team dicts are updated
ImportResults ==
    /\ clicks < MaxClicks
    /\ export_file # NoFile
    /\ clicks' = clicks + 1
    /\ CURRENT_SEASON' = export_file.season
    /\ LEAGUE_HISTORY' = export_file.league_history
    /\ CUP_HISTORY' = export_file.cup_history
    /\ TEAM_HISTORY' = export_file.team_history
    /\ TEAM_OBJECTS' = MergedTeams(TEAM_OBJECTS, TEAM_ID_MAP, export_file.team_data)
    /\ handler' = "import"
    /\ request' = [request EXCEPT !.imported = TRUE]
    /\ UNCHANGED <<simulation_running, worker_threads, complete_pending, export_file,
                   seasons_left>>
    /\ UNCHANGED <<engineVars, seasonLocals>>

\* the GUI over a loaded world of one league team, with or without a second
\* league listing the same id: nothing is simulated until it is asked for
InitGui ==
    /\ LeagueOff /\ CupOff /\ ContinentalOff /\ EvolveLocalsOff /\ GeneratorFresh
    /\ \E shared \in BOOLEAN :
          /\ TEAM_OBJECTS = WorldObjects(1, shared)
          /\ COMPS = WorldComps(1, shared)
    /\ WorldLoaded
    /\ seasons_left = 0

NextGui ==
    \/ NextSeason
    \/ RunSimulation
    \/ WorkerExit
    \/ SimulationComplete
    \/ ExportResults
    \/ ImportResults

SpecGui == InitGui /\ [][NextGui]_vars

\* --------------------------------------- the career simulator (main.py)
\* ratings and growth are kept in millionths of a rating point
Points(x) == x * 1000000

\* Player.__init__: overall and potential are floats as drawn, the
\* potential at least 5 above the overall; age 16, no history
NewPlayer(overall, drawn_potential) ==
    [age |-> 16, overall |-> overall,
     potential |-> Max2(drawn_potential, overall + Points(5)),
     history |-> <<>>]

\* the overall and potential draws that are exercised
PlayerDraws ==
    {<<64374000, 76126000>>, <<64374000, 60000000>>,
     <<64376000, 76123000>>, <<64376000, 60000000>>}

\* the age factor of the growth, in thousandths
AgeFactor(age) ==
    IF age <= 18 THEN 1300
    ELSE IF age <= 21 THEN 1050
    ELSE IF age <= 24 THEN 750
    ELSE IF age <= 29 THEN 450
    ELSE IF age <= 32 THEN 250
    ELSE 80

\* what a season contributes to the growth: the team's devRate, whether the
\* player was on the pitch all the time or never (minutes_ratio 1 or 0), and
\* random.uniform(0.9, 1.15) in thousandths: the most, a middling and no
\* growth
CareerDraws ==
    {[dev |-> 10, minutes_ratio |-> 1, random_mult |-> 1150],
     [dev |-> 5, minutes_ratio |-> 1, random_mult |-> 900],
     [dev |-> 5, minutes_ratio |-> 0, random_mult |-> 900]}

\* growth = dev * 0.05 * minutes_ratio * random_mult * age_factor, kept in
\* [0, gap]
Growth(p, age, d) ==
    LET gap == Max2(0, p.potential - p.overall)
        growth == (d.dev * 50 * d.minutes_ratio * d.random_mult * AgeFactor(age))
                     \div 1000
    IN Max2(0, Min2(growth, gap))

\* round(x, 2): to the nearest hundredth, a tie to the even one
Round2(x) == 10000 * RoundHalfEven(x, 10000)

\* add_history: season_no = len(self.history) + 1
AddHistory(history, age, new_overall) ==
    Append(history, [season |-> Len(history) + 1, age |-> age, new_overall |-> new_overall])

InitPlayer ==
    \E d \in PlayerDraws : player = NewPlayer(d[1], d[2])

\* one call of simulatePlayerSeason: the season is played, the player ages,
\* grows and gets the season into the history
SimulatePlayerSeason ==
    /\ player # <<>>
    /\ Len(player.history) < MaxCareer
    /\ \E d \in CareerDraws :
         LET age == player.age + 1
             overall == Round2(Max2(Points(1),
                               Min2(player.potential,
                                    player.overall + Growth(player, age, d))))
         IN player' = [age |-> age, overall |-> overall, potential |-> player.potential,
                       history |-> AddHistory(player.history, age, overall)]
    /\ UNCHANGED <<leagueVars, cupVars, contVars, groupVars, cupCallVars, contCallVars,
                   evolveVars, random_calls, seasonLocals, LEAGUE_HISTORY, CUP_HISTORY,
                   TEAM_OBJECTS, seasons_left, guiVars>>

InitCareer ==
    /\ LeagueOff /\ CupOff /\ ContinentalOff /\ EvolveOff /\ WorldParked /\ GeneratorFresh
    /\ InitPlayer

NextCareer == SimulatePlayerSeason

SpecCareer == InitCareer /\ [][NextCareer]_vars


\* ------------------------------------------------------- league properties
ResultRows == {sorted_table[i] : i \in DOMAIN sorted_table}

Drawn(m) == m.home_goals = m.away_goals

DrawnMatches == {k \in DOMAIN match_results : Drawn(match_results[k])}

DecidedMatches == {k \in DOMAIN match_results : ~Drawn(match_results[k])}

ColumnSum(col(_)) == SumSeq([i \in DOMAIN sorted_table |-> col(sorted_table[i])])

PlayedOf(r) == r.played
WinsOf(r) == r.wins
DrawsOf(r) == r.draws
LossesOf(r) == r.losses
GdOf(r) == r.gd
PointsOf(r) == r.points

\* what the fixture results say about team i
HomeOf(i) == {k \in DOMAIN match_results : match_results[k].home_idx = i}
AwayOf(i) == {k \in DOMAIN match_results : match_results[k].away_idx = i}

RECURSIVE SumOver(_, _, _)
SumOver(S, f, which) ==
    IF S = {} THEN 0
    ELSE LET k == CHOOSE x \in S : TRUE
         IN (IF which = "home" THEN f[k].home_goals ELSE f[k].away_goals)
            + SumOver(S \ {k}, f, which)

WonBy(i) ==
    Cardinality({k \in HomeOf(i) : match_results[k].home_goals > match_results[k].away_goals})
    + Cardinality({k \in AwayOf(i) : match_results[k].away_goals > match_results[k].home_goals})

DrawnBy(i) == Cardinality({k \in HomeOf(i) \cup AwayOf(i) : Drawn(match_results[k])})

ScoredBy(i) == SumOver(HomeOf(i), match_results, "home") + SumOver(AwayOf(i), match_results, "away")

ConcededBy(i) == SumOver(HomeOf(i), match_results, "away") + SumOver(AwayOf(i), match_results, "home")

\* C1: a league of N teams yields N*(N-1) fixtures, one per ordered pair
\* (i, j) with i # j and none with i = j; the played column sums to twice
\* the number of fixtures and every team has played 2*(N-1) matches.
C1_DoubleRoundRobin ==
    pcL = "done" =>
        LET n == Len(teams)
        IN /\ Len(match_results) = n * (n - 1)
           /\ \A i, j \in 1..n :
                Cardinality({k \in DOMAIN match_results :
                               /\ match_results[k].home_idx = i
                               /\ match_results[k].away_idx = j})
                  = (IF i = j THEN 0 ELSE 1)
           /\ \A k \in DOMAIN match_results :
                /\ match_results[k].home_idx \in 1..n
                /\ match_results[k].away_idx \in 1..n
           /\ Len(sorted_table) = n
           /\ ColumnSum(PlayedOf) = 2 * Len(match_results)
           /\ \A r \in ResultRows : r.played = 2 * (n - 1)

C1_Witness ==
    /\ pcL = "done"
    /\ Len(teams) = MaxLeagueTeams
    /\ Len(match_results) = MaxLeagueTeams * (MaxLeagueTeams - 1)
    /\ Len(match_results) >= 2

\* C2: the table is the aggregation of this call's fixture results, row by
\* row and in total; nothing of an earlier call is left in it.
C2_TableAggregatesFixtures ==
    pcL = "done" =>
        /\ \A r \in ResultRows :
             /\ r.wins + r.draws + r.losses = r.played
             /\ r.gd = r.gf - r.ga
             /\ r.points = 3 * r.wins + r.draws
        /\ \A i \in DOMAIN teams :
             \E r \in ResultRows :
                /\ r.teamId = teams[i].teamId
                /\ r.wins = WonBy(i)
                /\ r.draws = DrawnBy(i)
                /\ r.gf = ScoredBy(i)
                /\ r.ga = ConcededBy(i)
        /\ ColumnSum(WinsOf) = ColumnSum(LossesOf)
        /\ ColumnSum(WinsOf) = Cardinality(DecidedMatches)
        /\ ColumnSum(DrawsOf) = 2 * Cardinality(DrawnMatches)
        /\ ColumnSum(GdOf) = 0
        /\ ColumnSum(PointsOf) =
             3 * Cardinality(DecidedMatches) + 2 * Cardinality(DrawnMatches)

C2_Witness ==
    /\ pcL = "done"
    /\ DrawnMatches # {}
    /\ DecidedMatches # {}
    /\ \E r \in ResultRows : r.gf > 0 /\ r.draws > 0 /\ r.losses > 0

\* C3: the table is ordered by (-points, -gd, -gf, -reputationFactor), rows
\* with equal keys keeping the order of the input team list.
RanksAbove(a, b) ==
    \/ a.points > b.points
    \/ a.points = b.points /\ a.gd > b.gd
    \/ a.points = b.points /\ a.gd = b.gd /\ a.gf > b.gf
    \/ a.points = b.points /\ a.gd = b.gd /\ a.gf = b.gf
         /\ a.reputationFactor > b.reputationFactor

CupSize == Len(cup_teams)

CupNames == {cup_teams[i].teamName : i \in DOMAIN cup_teams}

\* every match of every cup round, as <<round number, match>>
CupMatches ==
    UNION {{<<r, rounds[r].matches[k]>> : k \in DOMAIN rounds[r].matches} :
             r \in DOMAIN rounds}

MatchesPlayed == SumSeq([r \in DOMAIN rounds |-> Len(rounds[r].matches)])

PlayedIn(name, m) == m.home_team = name \/ m.away_team = name

BeatenIn(name, m) ==
    \/ m.home_team = name /\ m.home_goals < m.away_goals
    \/ m.away_team = name /\ m.away_goals < m.home_goals

WonIn(name, m) ==
    \/ m.home_team = name /\ m.home_goals > m.away_goals
    \/ m.away_team = name /\ m.away_goals > m.home_goals

\* the teams still in the cup
Survivors == IF pcC \in {"idle", "qualifying"} THEN SeqRange([i \in DOMAIN cup_teams |-> i])
             ELSE SeqRange(current_indices)

PowersOfTwo == {2 ^ k : k \in 0..5}

CeilLog2(n) == CHOOSE k \in 0..5 : 2 ^ k >= n /\ \A j \in 0..5 : 2 ^ j >= n => k <= j

FloorLog2(n) == CHOOSE k \in 0..5 : 2 ^ k <= n /\ \A j \in 0..5 : 2 ^ j <= n => j <= k

\* C4: a cup with N >= 1 entrants ends, with exactly one winner: every round
\* removes at least one team until one is left, that team is an entrant and
\* it won every match it played.
C4_OneCupWinner ==
    /\ pcC = "qualifying" => ENABLED QualifyingRound
    /\ pcC = "round" /\ Len(current_indices) > 1 => ENABLED KnockoutRound
    /\ pcC \in {"qualifying", "round", "done"} /\ CupSize >= 1 =>
         /\ \A r \in DOMAIN rounds : Len(rounds[r].matches) >= 1
         /\ Cardinality(Survivors) = CupSize - MatchesPlayed
         /\ Cardinality(Survivors) >= 1
    /\ pcC = "round" /\ Len(current_indices) <= 1 => ENABLED CupFinish
    /\ pcC = "done" /\ CupSize >= 1 =>
         /\ Len(current_indices) = 1
         /\ winner_name = cup_teams[current_indices[1]].teamName
         /\ winner_name \in CupNames
         /\ \A x \in CupMatches :
              PlayedIn(winner_name, x[2]) =>
                 WonIn(winner_name, x[2]) /\ x[2].winner = winner_name
         /\ \A name \in CupNames \ {winner_name} :
              Cardinality({x \in CupMatches : BeatenIn(name, x[2])}) = 1

C4_Witness ==
    /\ pcC = "done"
    /\ CupSize = 6
    /\ Len(rounds) = 3
    /\ \A r \in DOMAIN rounds :
          \E k \in DOMAIN rounds[r].matches : WonIn(winner_name, rounds[r].matches[k])

\* C5 as stated: ceil(log2 N) rounds when N is a power of two, one more when
\* it is not.
C5_AsClaimed ==
    pcC = "done" /\ CupSize >= 1 =>
        Len(rounds) = CeilLog2(CupSize)
                        + (IF CupSize \in PowersOfTwo THEN 0 ELSE 1)

\* C5 (amended): simCups produces ceil(log2 N) rounds for every N >= 1: the
\* log2 N rounds of the main draw when N is a power of two, and the
\* Qualifying Round followed by the floor(log2 N) rounds of the main draw
\* when it is not.
C5_RoundCount ==
    pcC = "done" /\ CupSize >= 1 =>
        /\ Len(rounds) = CeilLog2(CupSize)
        /\ CupSize \in PowersOfTwo =>
              \A r \in DOMAIN rounds : rounds[r].round_name # "Qualifying Round"
        /\ CupSize \notin PowersOfTwo =>
              /\ Len(rounds) = FloorLog2(CupSize) + 1
              /\ rounds[1].round_name = "Qualifying Round"
              /\ \A r \in 2..Len(rounds) : rounds[r].round_name # "Qualifying Round"

C5_Witness ==
    /\ pcC = "done"
    /\ CupSize = 6
    /\ Len(rounds) = 3
    /\ rounds[1].round_name = "Qualifying Round"

\* C6: no knockout match of a cup or of a continental competition ends
\* level, the recorded winner is the side with more goals and is the side
\* that goes on; _simulate_match breaks a level score by one goal for one
\* side and changes no other score.
Decisive(m, names) ==
    /\ m.home_goals # m.away_goals
    /\ m.winner = (IF m.home_goals > m.away_goals THEN m.home_team ELSE m.away_team)
    /\ m.winner \in names
    /\ (IF m.home_goals > m.away_goals THEN m.away_team ELSE m.home_team) \notin names

C6_NoKnockoutTie ==
    /\ \A r \in DOMAIN rounds : \A k \in DOMAIN rounds[r].matches :
          Decisive(rounds[r].matches[k],
                   IF r = Len(rounds)
                   THEN {cup_teams[i].teamName : i \in SeqRange(current_indices)}
                   ELSE {rounds[r].matches[k].winner})
    /\ \A r \in DOMAIN knockout_rounds : \A k \in DOMAIN knockout_rounds[r].matches :
          Decisive(knockout_rounds[r].matches[k],
                   IF r = Len(knockout_rounds)
                   THEN {current_teams[i].teamName : i \in DOMAIN current_teams}
                   ELSE {knockout_rounds[r].matches[k].winner})
    /\ \A d \in MatchDraws :
          LET g == SimulateMatch(d[1], d[2], d[3], TRUE)
          IN IF d[1] = d[2]
             THEN /\ g[1] >= d[1] /\ g[2] >= d[2]
                  /\ (g[1] - d[1]) + (g[2] - d[2]) = 1
             ELSE g = <<d[1], d[2]>>

\* a cup in which a level qualifying match and a level final were broken
C6_Witness ==
    /\ pcC = "done"
    /\ Len(rounds) >= 2
    /\ \E k \in DOMAIN rounds[1].matches :
          rounds[1].matches[k].home_goals \notin GoalDraws
    /\ rounds[Len(rounds)].matches[1].away_goals \notin GoalDraws

\* C7: with N not a power of two and target the largest power of two <= N,
\* there is one Qualifying Round of N - target matches between
\* 2 * (N - target) distinct entrants; its winners and the other
\* 2 * target - N entrants are the target teams of the main draw.  N = 6:
\* two qualifying matches, then Semi-finals, then Final.
QualifyingNames ==
    {rounds[1].matches[k].home_team : k \in DOMAIN rounds[1].matches}
        \cup {rounds[1].matches[k].away_team : k \in DOMAIN rounds[1].matches}

QualifyingWinners == {rounds[1].matches[k].winner : k \in DOMAIN rounds[1].matches}

LargestPowerBelow(n) == 2 ^ FloorLog2(n)

C7_QualifyingRound ==
    CupSize >= 1 /\ CupSize \notin PowersOfTwo /\ pcC \in {"round", "done"} =>
        LET target == LargestPowerBelow(CupSize)
        IN /\ Len(rounds) >= 1
           /\ rounds[1].round_name = "Qualifying Round"
           /\ \A r \in 2..Len(rounds) : rounds[r].round_name # "Qualifying Round"
           /\ Len(rounds[1].matches) = CupSize - target
           /\ Cardinality(QualifyingNames) = 2 * (CupSize - target)
           /\ QualifyingNames \subseteq CupNames
           /\ Cardinality(QualifyingWinners) = CupSize - target
           /\ Cardinality(CupNames \ QualifyingNames) = 2 * target - CupSize
           /\ Len(rounds) = 1 =>
                /\ Len(current_indices) = target
                /\ {cup_teams[i].teamName : i \in SeqRange(current_indices)}
                     = QualifyingWinners \cup (CupNames \ QualifyingNames)
           /\ CupSize = 6 /\ pcC = "done" =>
                /\ Len(rounds[1].matches) = 2
                /\ [r \in DOMAIN rounds |-> rounds[r].round_name]
                     = <<"Qualifying Round", "Semi-finals", "Final">>
                /\ Len(rounds[2].matches) = 2
                /\ Len(rounds[3].matches) = 1

C7_Witness ==
    /\ pcC = "done"
    /\ CupSize = 6
    /\ Len(rounds) = 3
    /\ Cardinality(QualifyingNames) = 4
    /\ \E k \in DOMAIN rounds[2].matches :
          rounds[2].matches[k].winner \in QualifyingWinners


\* ----------------------------------------------------- evolution properties
\* C8: after the evolution every team of the league has attack, midfield and
\* defense in [50, 99], financial in [20, 100] and reputationFactor in
\* [40, 100], whatever the values were before.
Evolved(i) == pcE = "done" \/ (pcE = "teams" /\ i < next_team)

C8_EvolutionBounds ==
    \A i \in DOMAIN COMP_TEAMS :
        Evolved(i) =>
            /\ COMP_TEAMS[i].attack \in 50..99
            /\ COMP_TEAMS[i].midfield \in 50..99
            /\ COMP_TEAMS[i].defense \in 50..99
            /\ COMP_TEAMS[i].financial \in 20..100
            /\ COMP_TEAMS[i].reputationFactor \in 40..100

\* a league whose teams started below and above every range, all evolved
C8_Witness ==
    /\ pcE = "done"
    /\ Len(COMP_TEAMS) >= 2
    /\ \E i, j \in DOMAIN COMP_TEAMS :
          /\ COMP_TEAMS[i].attack \in 50..55
          /\ COMP_TEAMS[i].financial \in 20..40
          /\ COMP_TEAMS[i].reputationFactor \in 40..48
          /\ COMP_TEAMS[j].attack = 99
          /\ COMP_TEAMS[j].financial = 100
          /\ COMP_TEAMS[j].reputationFactor = 100

\* C9: after the evolution the goalkeeping of every team of the league lies
\* in [50, 99], whether it changed or not and whatever it was before.
C9_GoalkeepingBounds ==
    \A i \in DOMAIN COMP_TEAMS :
        Evolved(i) => COMP_TEAMS[i].goalkeeping \in 50..99


\* -------------------------------------------------- group stage properties
ContinentalSize == Len(cont_teams)

\* where the teams are in the groups, as <<group, place>>
GroupPlaces == UNION {{<<x, k>> : k \in DOMAIN groups[x]} : x \in DOMAIN groups}

PlacesOf(tid) == {p \in GroupPlaces : groups[p[1]][p[2]].teamId = tid}

\* matches played in a finished group: every match counts for two teams
GroupMatches(x) ==
    SumSeq([i \in DOMAIN group_results[x].table |-> group_results[x].table[i].played]) \div 2

QualifierIds == [i \in DOMAIN knockout_qualifiers |-> knockout_qualifiers[i].teamId]

\* C11: with n >= 8 teams there are n \div 4 groups, the i-th strongest team
\* by reputation is in group i mod groups, so every team is in exactly one
\* group and the sizes differ by at most one; the top two rows of every group
\* qualify, 2 * (n \div 4) distinct teams in all.  n = 16: four groups of
\* four, 12 matches a group, 8 qualifiers, a first round named Quarter-finals.
C11_GroupStage ==
    /\ ContinentalSize >= 8 => pcK # "done"
    /\ pcK \in {"groups", "round"} =>
         LET n == ContinentalSize
             g == n \div 4
         IN /\ n >= 8
            /\ Len(groups) = g
            /\ \A i \in DOMAIN cont_teams : Cardinality(PlacesOf(cont_teams[i].teamId)) = 1
            /\ Cardinality(GroupPlaces) = n
            /\ \A x, y \in DOMAIN groups : Len(groups[x]) - Len(groups[y]) <= 1
            /\ \A p, q \in GroupPlaces :
                  (p[2] < q[2] \/ (p[2] = q[2] /\ p[1] < q[1])) =>
                      groups[p[1]][p[2]].reputationFactor >= groups[q[1]][q[2]].reputationFactor
            /\ \A x \in DOMAIN group_results :
                  LET size == Len(groups[x])
                      tbl == group_results[x].table
                  IN /\ Len(tbl) = size
                     /\ {tbl[i].teamId : i \in DOMAIN tbl}
                          = {groups[x][k].teamId : k \in DOMAIN groups[x]}
                     /\ \A i \in DOMAIN tbl : tbl[i].played = 2 * (size - 1)
                     /\ GroupMatches(x) = size * (size - 1)
                     /\ knockout_qualifiers[2 * x - 1].teamId = tbl[1].teamId
                     /\ knockout_qualifiers[2 * x].teamId = tbl[2].teamId
            /\ Len(knockout_qualifiers) = 2 * Len(group_results)
            /\ Cardinality(SeqRange(QualifierIds)) = Len(knockout_qualifiers)
            /\ SeqRange(knockout_qualifiers) \subseteq SeqRange(cont_teams)
            /\ pcK = "round" =>
                  /\ Len(knockout_qualifiers) = 2 * (n \div 4)
                  /\ current_teams = knockout_qualifiers
            /\ n = 16 =>
                  /\ g = 4
                  /\ \A x \in DOMAIN groups : Len(groups[x]) = 4
                  /\ \A x \in DOMAIN group_results : GroupMatches(x) = 12
                  /\ pcK = "round" =>
                        /\ Len(current_teams) = 8
                        /\ ContinentalRoundName(Len(current_teams)) = "Quarter-finals"

\* sixteen teams of unequal reputation, all four groups played
C11_Witness ==
    /\ pcK = "round"
    /\ ContinentalSize = 16
    /\ Len(group_results) = 4
    /\ Len(knockout_qualifiers) = 8
    /\ \E i, j \in DOMAIN cont_teams :
          cont_teams[i].reputationFactor # cont_teams[j].reputationFactor
    /\ \E x \in DOMAIN group_results :
          group_results[x].table[1].points > group_results[x].table[2].points

\* the group row with the reputation of its team, as a league row has it
ReputationOfId(tid) == FirstWithId(cont_teams, tid)[1].reputationFactor

GroupRow(x, i) ==
    LET r == group_results[x].table[i]
    IN [teamId |-> r.teamId, points |-> r.points, gd |-> r.gd, gf |-> r.gf,
        played |-> r.played, reputationFactor |-> ReputationOfId(r.teamId)]

PlaceInGroup(x, tid) == CHOOSE k \in DOMAIN groups[x] : groups[x][k].teamId = tid

\* C12: every group table is in the order of the league key (-points, -gd,
\* -gf, -reputationFactor): no row ranks above an earlier one, rows with
\* equal keys keep the order of the team list, and the two qualifiers of the
\* group are the first two rows of that order.
C12_GroupOrderAsLeague ==
    \A x \in DOMAIN group_results :
        LET tbl == group_results[x].table
            rows == [i \in DOMAIN tbl |-> GroupRow(x, i)]
        IN /\ SortLeagueTable(rows) = rows
           /\ \A i, j \in DOMAIN rows :
                i < j =>
                   /\ ~RanksAbove(rows[j], rows[i])
                   /\ ~RanksAbove(rows[i], rows[j]) =>
                         /\ PlaceInGroup(x, rows[i].teamId) < PlaceInGroup(x, rows[j].teamId)
                         /\ rows[i].teamId < rows[j].teamId
           /\ knockout_qualifiers[2 * x - 1].teamId = rows[1].teamId
           /\ knockout_qualifiers[2 * x].teamId = rows[2].teamId

\* two teams level on points, goal difference and goals for: the one with
\* the higher reputation is ahead although it comes later in the team list
C12_Witness ==
    \E x \in DOMAIN group_results :
        \E i, j \in DOMAIN group_results[x].table :
            /\ i < j
            /\ i <= 2 /\ j > 2
            /\ GroupRow(x, i).played > 0
            /\ GroupRow(x, i).points = GroupRow(x, j).points
            /\ GroupRow(x, i).gd = GroupRow(x, j).gd
            /\ GroupRow(x, i).gf = GroupRow(x, j).gf
            /\ GroupRow(x, i).reputationFactor > GroupRow(x, j).reputationFactor
            /\ GroupRow(x, i).teamId > GroupRow(x, j).teamId


\* ------------------------------------------------------- seeding properties
SeedRank(i) ==
    IF cup_teams[i].teamId \in DOMAIN league_seed_info
    THEN league_seed_info[cup_teams[i].teamId] ELSE Unseeded

IsSeeded(i) == cup_teams[i].teamId \in DOMAIN league_seed_info

NamesOf(ix) == {cup_teams[ix[k]].teamName : k \in DOMAIN ix}

\* C19: the entrants are ranked by (tier, league position) ascending, those
\* of no league table after all the others; the Qualifying Round is played
\* by the 2 * (N - target) lowest-ranked entrants and by nobody else, the
\* 2 * target - N best-ranked enter the main draw without playing it.
C19_Seeding ==
    pcC \in {"qualifying", "round", "done"} /\ CupSize >= 1 =>
        /\ SeqRange(seed_indices) = DOMAIN cup_teams
        /\ Len(seed_indices) = CupSize
        /\ \A a, b \in DOMAIN seed_indices :
              a < b =>
                 /\ ~TupleLess(SeedRank(seed_indices[b]), SeedRank(seed_indices[a]))
                 /\ IsSeeded(seed_indices[b]) => IsSeeded(seed_indices[a])
                 /\ SeedRank(seed_indices[a]) = SeedRank(seed_indices[b])
                       => seed_indices[a] < seed_indices[b]
        /\ CupSize \notin PowersOfTwo =>
              LET target == LargestPowerBelow(CupSize)
                  k == 2 * (CupSize - target)
              IN /\ Len(q_candidates) = k
                 /\ Len(main_seeds) = 2 * target - CupSize
                 /\ SeqRange(q_candidates) = {seed_indices[a] : a \in (CupSize - k + 1)..CupSize}
                 /\ main_seeds = SubSeq(seed_indices, 1, CupSize - k)
                 /\ \A q \in SeqRange(q_candidates), m \in SeqRange(main_seeds) :
                       ~TupleLess(SeedRank(q), SeedRank(m))
                 /\ pcC \in {"round", "done"} =>
                       /\ QualifyingNames = NamesOf(q_candidates)
                       /\ NamesOf(main_seeds) \cap QualifyingNames = {}
                 /\ pcC = "round" /\ Len(rounds) = 1 =>
                       SubSeq(current_indices, 1, Len(main_seeds)) = main_seeds

\* six entrants, three of them in no league: the three and the worst-placed
\* league team play the Qualifying Round, the two best-placed do not
C19_Witness ==
    /\ pcC = "done"
    /\ CupSize = 6
    /\ Cardinality({i \in DOMAIN cup_teams : ~IsSeeded(i)}) = 3
    /\ \A i \in DOMAIN cup_teams : ~IsSeeded(i) => cup_teams[i].teamName \in QualifyingNames
    /\ \E i \in DOMAIN cup_teams : IsSeeded(i) /\ cup_teams[i].teamName \in QualifyingNames
    /\ main_seeds = <<5, 3>>
    /\ seed_indices # <<1, 2, 3, 4, 5, 6>>


\* ---------------------------------------------------- round name properties
\* the name a round entered by s teams is to have
NameForSize(s) ==
    CASE s = 2 -> "Final"
      [] s = 4 -> "Semi-finals"
      [] s = 8 -> "Quarter-finals"
      [] s = 16 -> "Round of 16"
      [] s = 32 -> "Round of 32"
      [] OTHER -> "Round of " \o ToString(s)

\* the sizes for which the naming is compared
NamedSizes == 1..40

\* simCups and simContinental name every size as required
NamingAgrees ==
    \A sz \in NamedSizes :
        /\ CupRoundName(sz) = NameForSize(sz)
        /\ ContinentalRoundName(sz) = NameForSize(sz)

\* the teams that entered round r: those that played it and went out, and
\* those that entered the round after it
RECURSIVE CupEntering(_)
CupEntering(r) ==
    Len(rounds[r].matches)
      + (IF r = Len(rounds) THEN Len(current_indices) ELSE CupEntering(r + 1))

RECURSIVE ContinentalEntering(_)
ContinentalEntering(r) ==
    Len(knockout_rounds[r].matches)
      + (IF r = Len(knockout_rounds) THEN Len(current_teams) ELSE ContinentalEntering(r + 1))

\* C20: every round after the Qualifying Round is named from the number of
\* teams entering it (2 Final, 4 Semi-finals, 8 Quarter-finals, 16 Round of
\* 16, 32 Round of 32, otherwise Round of s); the sizes strictly decrease from
\* round to round and a finished knockout of at least 2 entrants ends with
\* the Final.
C20_RoundNames ==
    /\ NamingAgrees
    /\ \A r \in DOMAIN rounds :
          /\ rounds[r].round_name = "Qualifying Round" => r = 1
          /\ rounds[r].round_name # "Qualifying Round" =>
                rounds[r].round_name = NameForSize(CupEntering(r))
          /\ r > 1 => CupEntering(r) < CupEntering(r - 1)
    /\ pcC = "done" /\ CupSize >= 2 => rounds[Len(rounds)].round_name = "Final"
    /\ \A r \in DOMAIN knockout_rounds :
          /\ knockout_rounds[r].round_name = NameForSize(ContinentalEntering(r))
          /\ r > 1 => ContinentalEntering(r) < ContinentalEntering(r - 1)
    /\ pcK = "done" /\ Len(knockout_qualifiers) >= 2 =>
          knockout_rounds[Len(knockout_rounds)].round_name = "Final"

\* a knockout of six: an even round without a name of its own, an odd round
\* with a team left over, and the Final
C20_Witness ==
    /\ pcK = "done"
    /\ Len(knockout_qualifiers) = 6
    /\ [r \in DOMAIN knockout_rounds |-> knockout_rounds[r].round_name]
          = <<"Round of 6", "Round of 3", "Final">>


\* ------------------------------------------------------ sentinel properties
\* what a competition below its minimum is to yield
EmptyResult == [rounds |-> <<>>, winner |-> None]

NamesIn(ts) == {ts[i].teamName : i \in DOMAIN ts}

\* the results of the cups dealt with so far, each against its entrants
CupResultsAsRequired ==
    /\ pcC # "off" =>
          Len(cup_all_results) = (IF pcC = "done" THEN cup_key ELSE cup_key - 1)
    /\ \A k \in DOMAIN cup_all_results :
          LET ts == cup_stats_by_key[k]
              res == cup_all_results[k]
          IN /\ Len(ts) = 0 => res = EmptyResult
             /\ Len(ts) >= 1 => res.winner \in NamesIn(ts)
             /\ Len(ts) >= 2 => res.rounds # <<>>
    /\ pcC # "off" /\ (\A k \in 1..cup_key : Len(cup_stats_by_key[k]) = 0) => random_calls = 0

\* the same for the continental competitions, the minimum being 8 teams
ContinentalResultsAsRequired ==
    /\ pcK \notin {"off", "round"} \/ continental_comps # <<>> =>
          Len(cont_all_results) = (IF pcK = "done" THEN cont_key ELSE cont_key - 1)
    /\ \A k \in DOMAIN cont_all_results :
          k \in DOMAIN continental_comps =>
             LET ts == continental_comps[k]
                 res == cont_all_results[k]
             IN /\ Len(ts) < 8 => res = EmptyResult
                /\ Len(ts) >= 8 =>
                      /\ res.winner \in NamesIn(ts)
                      /\ Len(res.groups) = Len(ts) \div 4
                      /\ res.rounds # <<>>
    /\ pcK \in {"idle", "done"} /\ (\A k \in 1..cont_key : Len(continental_comps[k]) < 8)
          => random_calls = 0

\* the step that deals with a competition below its minimum: the empty
\* result is stored, nothing is played and the generator is left alone
SentinelStep ==
    /\ pcC = "idle" /\ Len(cup_teams) = 0 =>
          /\ pcC' = "done"
          /\ cup_all_results' = Append(cup_all_results, EmptyResult)
          /\ rounds' = <<>>
          /\ random_calls' = random_calls
    /\ pcK = "idle" /\ Len(cont_teams) < 8 =>
          /\ pcK' = "done"
          /\ cont_all_results' = Append(cont_all_results, EmptyResult)
          /\ group_results' = <<>> /\ knockout_rounds' = <<>>
          /\ random_calls' = random_calls

\* C13: a cup without entrants and a continental competition of fewer than
\* 8 teams yield rounds = [] and winner = None; no match is played and no
\* draw is taken for it, and the other competitions of the call are played.
C13_EmptySentinel ==
    /\ [](CupResultsAsRequired /\ ContinentalResultsAsRequired)
    /\ [][SentinelStep]_vars

\* a call for a competition of 7 teams and one of 8: the first is left out
\* without a draw, the second is played to its winner
C13_Witness ==
    /\ pcK = "done"
    /\ Len(continental_comps) = 2
    /\ Len(continental_comps[1]) = 7
    /\ Len(cont_all_results) = 2
    /\ cont_all_results[1] = EmptyResult
    /\ cont_all_results[2].winner # None
    /\ Len(cont_all_results[2].rounds) = 2
    /\ random_calls > 0

\* ------------------------------------------------------- claims on run_season
RegistryKeys == {CacheKey(TEAM_OBJECTS[r]) : r \in DOMAIN TEAM_OBJECTS}

StageSuccession ==
    {<<"idle", "league">>, <<"league", "cup">>, <<"cup", "continental">>,
     <<"continental", "evolve">>, <<"evolve", "history">>, <<"history", "advance">>,
     <<"advance", "idle">>}

\* one step of run_season as C14 allows it
OrderedStep ==
    /\ stage' # stage => <<stage, stage'>> \in StageSuccession
    /\ league_results' # league_results => stage \in {"league", "advance"}
    /\ cup_results' # cup_results => stage \in {"cup", "advance"} /\ (stage = "cup" => run_cups)
    /\ TEAM_OBJECTS' # TEAM_OBJECTS => stage = "evolve"
    /\ TEAM_HISTORY' # TEAM_HISTORY => stage \in {"evolve", "history"}
    /\ CURRENT_SEASON' # CURRENT_SEASON => stage = "advance"
    /\ RATING_CACHE' # RATING_CACHE =>
          /\ stage \in {"idle", "league", "cup", "continental"}
          /\ CachedKeys(RATING_CACHE') \ CachedKeys(RATING_CACHE) \subseteq RegistryKeys

\* C14: within one run_season the stages follow each other as League, Cup
\* (if asked for), Continental, Rating Evolution, History, counter advance;
\* the registry's team dicts change in the Rating Evolution stage only, so
\* every rating read by the season's competitions is one of the registry's
\* attribute values as they still are when the evolution starts.
C14_StageOrder ==
    /\ [][OrderedStep]_vars
    /\ [](stage \in {"cup", "continental", "evolve"}
            => CachedKeys(RATING_CACHE) \subseteq RegistryKeys)

\* a season is over in which the league and the cup were played on ratings
\* the evolution has changed since
C14_Witness ==
    /\ stage = "idle"
    /\ CURRENT_SEASON >= 1
    /\ CUP_HISTORY[CURRENT_SEASON] # <<>>
    /\ Len(LEAGUE_HISTORY[CURRENT_SEASON]) >= 1
    /\ RATING_CACHE # {}
    /\ \E k \in CachedKeys(RATING_CACHE) : k \notin RegistryKeys

\* the entries of a list that are new in this step
Added(old, new) == {new[i] : i \in (DOMAIN new) \ (DOMAIN old)}

\* one step as C15 allows it
StampedStep ==
    /\ \A tid \in DOMAIN TEAM_HISTORY :
          \A e \in Added(TEAM_HISTORY[tid].records, TEAM_HISTORY'[tid].records)
                 \cup Added(TEAM_HISTORY[tid].ratings, TEAM_HISTORY'[tid].ratings) :
             e.season = CURRENT_SEASON + 1
    /\ CURRENT_SEASON' # CURRENT_SEASON =>
          /\ CURRENT_SEASON' = CURRENT_SEASON + 1
          /\ stage = "advance"
          /\ stage' = "idle"

EntriesOf(tid) ==
    SeqRange(TEAM_HISTORY[tid].records) \cup SeqRange(TEAM_HISTORY[tid].ratings)

\* C15: every record and snapshot is stamped with the counter plus one as the
\* counter stands when it is written; the counter moves by exactly one per
\* run_season, after evolution and history recording, and never back; so
\* after k runs from a fresh world the counter is k, and what run k wrote
\* carries season k.
C15_SeasonStamps ==
    /\ [][StampedStep]_vars
    /\ [](/\ CURRENT_SEASON = Len(LEAGUE_HISTORY)
          /\ CURRENT_SEASON = Len(CUP_HISTORY)
          /\ \A tid \in DOMAIN TEAM_HISTORY :
               /\ \A e \in EntriesOf(tid) : e.season \in 1..(CURRENT_SEASON + 1)
               /\ \A e \in SeqRange(TEAM_HISTORY[tid].records) :
                     e.season = CURRENT_SEASON + 1 => stage = "advance"
               /\ \A e \in SeqRange(TEAM_HISTORY[tid].ratings) :
                     e.season = CURRENT_SEASON + 1 => stage \in {"history", "advance"}
               /\ stage = "idle" =>
                     \A k \in 1..CURRENT_SEASON :
                        \E e \in SeqRange(TEAM_HISTORY[tid].ratings) : e.season = k)

\* two runs are over; a team holds records and snapshots of both seasons
C15_Witness ==
    /\ stage = "idle"
    /\ CURRENT_SEASON = 2
    /\ \E tid \in DOMAIN TEAM_HISTORY :
          /\ {e.season : e \in SeqRange(TEAM_HISTORY[tid].records)} = {1, 2}
          /\ {e.season : e \in SeqRange(TEAM_HISTORY[tid].ratings)} = {1, 2}

\* C16: no team holds two rating snapshots of the same season, also when the
\* ratings are evolved twice before the counter moves and when a teamId is
\* listed in two evolved leagues.
C16_OneSnapshotPerSeason ==
    \A tid \in DOMAIN TEAM_HISTORY :
       \A i, j \in DOMAIN TEAM_HISTORY[tid].ratings :
          i # j => TEAM_HISTORY[tid].ratings[i].season # TEAM_HISTORY[tid].ratings[j].season

\* in the second season the ratings were evolved twice, in a world that
\* lists team 1 under two leagues
C16_Witness ==
    /\ stage = "readjusted"
    /\ CURRENT_SEASON >= 1
    /\ Len(OfFormat(COMPS, 0)) = 2
    /\ \E a, b \in DOMAIN TEAM_OBJECTS :
          a # b /\ TEAM_OBJECTS[a].teamId = TEAM_OBJECTS[b].teamId
    /\ Len(TEAM_HISTORY[1].ratings) = CURRENT_SEASON + 1

\* what a step may do to one list of a team's history
Kept(old, new) ==
    /\ Len(new) >= Len(old)
    /\ \A i \in DOMAIN old : old[i].season <= CURRENT_SEASON => new[i] = old[i]
    /\ \A i \in DOMAIN new : \A j \in DOMAIN old :
          (new[i].season > CURRENT_SEASON /\ old[j].season <= CURRENT_SEASON) => j < i

\* C17: what a team's history holds when a season is over stays where it is
\* and as it is in every later season; a season only adds entries behind it.
C17_AppendOnly ==
    [][/\ DOMAIN TEAM_HISTORY \subseteq DOMAIN TEAM_HISTORY'
       /\ \A tid \in DOMAIN TEAM_HISTORY :
            /\ Kept(TEAM_HISTORY[tid].records, TEAM_HISTORY'[tid].records)
            /\ Kept(TEAM_HISTORY[tid].ratings, TEAM_HISTORY'[tid].ratings)]_vars

\* the second season has added its records and its snapshot behind those of
\* the first
C17_Witness ==
    /\ stage = "advance"
    /\ CURRENT_SEASON = 1
    /\ \E tid \in DOMAIN TEAM_HISTORY :
          LET recs == TEAM_HISTORY[tid].records
          IN /\ Len(TEAM_HISTORY[tid].ratings) = 2
             /\ Len(recs) >= 4
             /\ recs[1].season = 1
             /\ recs[Len(recs)].season = 2
             /\ \E i \in DOMAIN recs : recs[i].type = "cup" /\ recs[i].season = 1


\* ------------------------------------------------ claims on the rating cache
\* d.get(a, 50)
ValueOr50(d, a) == IF a \in DOMAIN d THEN d[a] ELSE 50

\* 0.35, 0.35, 0.20 and 0.10 of the four attributes, in hundredths
WeightedSum(atk, mid, dfn, gk) == 35 * atk + 35 * mid + 20 * dfn + 10 * gk

\* what the cache holds for a team
EntriesFor(tid) == {e \in RATING_CACHE : e[1][1] = tid}

\* C18: whatever rating calls, evolutions and season starts came before,
\* _team_rating returns the weighted sum of the attributes of the dict it is
\* handed, a missing attribute counting as 50; every cached value is the
\* weighted sum of the attributes in its key, one value per key; and
\* run_season has emptied the cache when the first match of a season is about
\* to be played.
C18_TransparentCache ==
    /\ rated # <<>> =>
          rating = WeightedSum(ValueOr50(rated[1], "attack"), ValueOr50(rated[1], "midfield"),
                               ValueOr50(rated[1], "defense"),
                               ValueOr50(rated[1], "goalkeeping"))
    /\ \A e \in RATING_CACHE :
          /\ e[2] = WeightedSum(e[1][2], e[1][3], e[1][4], e[1][5])
          /\ \A f \in RATING_CACHE : f[1] = e[1] => f = e
    /\ stage = "league" => RATING_CACHE = {}

\* team 2, loaded without defense and goalkeeping, was rated by the matches
\* of a season, has evolved, and is rated again while the cache still holds
\* the value of its old attributes
C18_Witness ==
    /\ rated # <<>>
    /\ rated[1].teamId = 2
    /\ CURRENT_SEASON >= 1
    /\ \E e \in EntriesFor(2) :
          /\ e[1][4] = 50
          /\ e[1][5] = 50
          /\ e[2] # rating
    /\ Cardinality(EntriesFor(2)) >= 2

\* ------------------------------------------------- claims on knockout rounds
\* the names of the two sides of the matches of a round
SidesOf(ms) ==
    {ms[k].home_team : k \in DOMAIN ms} \cup {ms[k].away_team : k \in DOMAIN ms}

\* a round as C21 requires it: before are the names of the k survivors,
\* ms the matches stored for the round, after the names that go on
PairedRound(before, k, ms, after, k_after) ==
    /\ Cardinality(before) = k
    /\ Len(ms) = k \div 2
    /\ Cardinality(SidesOf(ms)) = 2 * Len(ms)
    /\ SidesOf(ms) \subseteq before
    /\ \A j \in DOMAIN ms :
          /\ ms[j].home_goals # ms[j].away_goals
          /\ ms[j].winner \in {ms[j].home_team, ms[j].away_team}
    /\ Cardinality(before \ SidesOf(ms)) = k % 2
    /\ k_after = (k + 1) \div 2
    /\ Cardinality(after) = k_after
    /\ after = {ms[j].winner : j \in DOMAIN ms} \cup (before \ SidesOf(ms))

CupSurvivors == {cup_teams[current_indices[i]].teamName : i \in DOMAIN current_indices}

ContinentalSurvivors == {current_teams[i].teamName : i \in DOMAIN current_teams}

\* C21: a round of the cup's main draw or of the continental knockout stage
\* with k >= 2 survivors has floor(k / 2) decisive matches between 2 *
\* floor(k / 2) different survivors; the one survivor left over when k is odd
\* goes on without a match; the ceil(k / 2) teams of the next round are the
\* match winners and that survivor.
C21_RoundPairing ==
    [][/\ (pcC = "round" /\ rounds' # rounds) =>
            /\ Len(current_indices) >= 2
            /\ PairedRound(CupSurvivors, Len(current_indices),
                           rounds'[Len(rounds')].matches,
                           CupSurvivors', Len(current_indices'))
       /\ (pcK = "round" /\ knockout_rounds' # knockout_rounds) =>
            /\ Len(current_teams) >= 2
            /\ PairedRound(ContinentalSurvivors, Len(current_teams),
                           knockout_rounds'[Len(knockout_rounds')].matches,
                           ContinentalSurvivors', Len(current_teams'))]_vars

\* six continental qualifiers: the round of three was played, with one match
\* and one team going through without it, and the cup has played a round
C21_Witness ==
    /\ Len(knockout_qualifiers) = 6
    /\ Len(knockout_rounds) = 2
    /\ Len(knockout_rounds[2].matches) = 1
    /\ Len(current_teams) = 2
    /\ \E i \in DOMAIN current_teams :
          current_teams[i].teamName \notin SidesOf(knockout_rounds[2].matches)

\* ------------------------------------------------ claims on the finances
\* the financial value as C22 words it: the three terms clamped, the
\* takeover amount on top, the result kept in [20, 100]
FinanceWithTakeoverOnTop(old_finance, n, fp, pd, m, d) ==
    LET prize_money_change == TruncDiv(10 * (n - fp + 1), n)
        fin_perf_change == TruncDiv(5 * pd, m)
        clamped == Clamp(-20, 30, prize_money_change + fin_perf_change + d.fin_random)
    IN Clamp(20, 100, old_finance + clamped + (IF d.takeover THEN d.boost ELSE 0))

\* C22: the financial delta is the sum of the prize-money, performance and
\* noise terms clamped to [-20, 30]; a takeover adds its 20 to 40 on top of
\* the clamped total; the new financial value is kept in [20, 100].  Every
\* evolution of a team is the one some draws give with this financial value.
C22_TakeoverOnTop ==
    [][(pcE = "teams" /\ next_team' = next_team + 1) =>
         LET t == COMP_TEAMS[next_team]
             n == Max2(Len(COMP_TEAMS), 1)
             fp == GetOr(finish_pos, t.teamId, n)
             ep == GetOr(expected_pos, t.teamId, n)
         IN \E d \in EvolveDraws :
              /\ random_calls' = random_calls + EvolveCalls(d)
              /\ COMP_TEAMS'[next_team] =
                   [EvolvedTeam(t, n, fp, ep, d) EXCEPT
                      !.financial = FinanceWithTakeoverOnTop(t.financial, n, fp, ep - fp,
                                                             Max2(1, n - 1), d)]]_vars

\* the financial value with the takeover amount inside the clamped total
FinanceWithTakeoverInside(old_finance, n, fp, pd, m, d) ==
    LET prize_money_change == TruncDiv(10 * (n - fp + 1), n)
        fin_perf_change == TruncDiv(5 * pd, m)
        total == prize_money_change + fin_perf_change + d.fin_random
                   + (IF d.takeover THEN d.boost ELSE 0)
    IN Clamp(20, 100, old_finance + Clamp(-20, 30, total))

\* C22, amended: the takeover amount is added to the prize-money, performance
\* and noise terms before the clamp, so the whole delta, takeover included,
\* lies in [-20, 30]; the new financial value is kept in [20, 100] and is
\* never more than 30 above the old one unless it is lifted to the floor.
C22_TakeoverInsideClamp ==
    [][(pcE = "teams" /\ next_team' = next_team + 1) =>
         LET t == COMP_TEAMS[next_team]
             n == Max2(Len(COMP_TEAMS), 1)
             fp == GetOr(finish_pos, t.teamId, n)
             ep == GetOr(expected_pos, t.teamId, n)
             new == COMP_TEAMS'[next_team]
         IN /\ \E d \in EvolveDraws :
                 /\ random_calls' = random_calls + EvolveCalls(d)
                 /\ new = [EvolvedTeam(t, n, fp, ep, d) EXCEPT
                             !.financial = FinanceWithTakeoverInside(t.financial, n, fp,
                                              ep - fp, Max2(1, n - 1), d)]
            /\ new.financial \in 20..100
            /\ new.financial <= Max2(20, t.financial + 30)
            /\ new.financial >= Min2(100, t.financial - 20)]_vars

\* a team loaded with financial 50 stands at 80 after its evolution: more
\* than the 18 the three terms can add, so a takeover took place, and its
\* total was cut to 30
C22_Witness ==
    \E i \in DOMAIN COMP_TEAMS :
       /\ Evolved(i)
       /\ CURRENT_SEASON = 0
       /\ TeamProfiles[2].financial = 50
       /\ COMP_TEAMS[i].devRate = TeamProfiles[2].devRate
       /\ COMP_TEAMS[i].financial = 80

\* ------------------------------------------------ claims on rating snapshots
\* the references of all league teams, in the order the leagues are evolved
LeagueRefs ==
    LET ls == OfFormat(COMPS, 0)
        F[l \in 0..Len(ls)] == IF l = 0 THEN <<>> ELSE F[l - 1] \o ls[l].teams
    IN F[Len(ls)]

\* the references of the league dicts that carry a team id
RefsOfId(tid) == {i \in DOMAIN LeagueRefs : TEAM_OBJECTS[LeagueRefs[i]].teamId = tid}

LeagueTeamIds == {TEAM_OBJECTS[LeagueRefs[i]].teamId : i \in DOMAIN LeagueRefs}

\* a snapshot holds the season and the six values of a team dict
SnapshotHolds(snap, season, t) ==
    snap = [season |-> season, attack |-> t.attack, midfield |-> t.midfield,
            defense |-> t.defense, goalkeeping |-> t.goalkeeping,
            financial |-> t.financial, reputation |-> t.reputationFactor]

\* k snapshots, of the seasons 1..k in order
OnePerSeason(ratings_list, k) ==
    /\ Len(ratings_list) = k
    /\ \A s \in 1..k : ratings_list[s].season = s

\* C23: after each run_season every league team with a history entry holds
\* one snapshot per season played, seasons 1..k in order, and the newest one
\* carries the new counter and the values the registry holds for the team.
C23_SnapshotIsRegistry ==
    stage = "idle" =>
       \A tid \in LeagueTeamIds \cap DOMAIN TEAM_HISTORY :
          /\ OnePerSeason(TEAM_HISTORY[tid].ratings, CURRENT_SEASON)
          /\ CURRENT_SEASON > 0 =>
                SnapshotHolds(TEAM_HISTORY[tid].ratings[CURRENT_SEASON], CURRENT_SEASON,
                              TEAM_OBJECTS[TEAM_ID_MAP[tid]])

\* C23, amended: after each run_season every league team with a history
\* entry holds one snapshot per season played, seasons 1..k in order; the
\* newest one carries the new counter and the post-evolution values of the
\* first league dict that carries the team id, which is the registry's dict
\* whenever the id is listed under one league only.
C23_SnapshotIsFirstDict ==
    /\ stage = "idle" =>
         \A tid \in LeagueTeamIds \cap DOMAIN TEAM_HISTORY :
            LET first == LeagueRefs[CHOOSE i \in RefsOfId(tid) :
                                       \A j \in RefsOfId(tid) : i <= j]
            IN /\ OnePerSeason(TEAM_HISTORY[tid].ratings, CURRENT_SEASON)
               /\ CURRENT_SEASON > 0 =>
                     SnapshotHolds(TEAM_HISTORY[tid].ratings[CURRENT_SEASON],
                                   CURRENT_SEASON, TEAM_OBJECTS[first])
               /\ Cardinality(RefsOfId(tid)) = 1 => TEAM_ID_MAP[tid] = first
    /\ stage = "history" =>
         \A tid \in LeagueTeamIds \cap DOMAIN TEAM_HISTORY :
            OnePerSeason(TEAM_HISTORY[tid].ratings, CURRENT_SEASON + 1)

\* two seasons are over in a league of two teams: each holds two snapshots,
\* the second one equal to its evolved registry dict, which is no longer the
\* loaded one
C23_Witness ==
    /\ stage = "idle"
    /\ CURRENT_SEASON = 2
    /\ Cardinality(LeagueTeamIds) = 2
    /\ \A tid \in LeagueTeamIds :
          /\ Cardinality(RefsOfId(tid)) = 1
          /\ Len(TEAM_HISTORY[tid].ratings) = 2
          /\ SnapshotHolds(TEAM_HISTORY[tid].ratings[2], 2, TEAM_OBJECTS[TEAM_ID_MAP[tid]])
          /\ TEAM_HISTORY[tid].ratings[2].attack # TEAM_HISTORY[tid].ratings[1].attack

\* ------------------------------------------------ claims on the season lists
\* the league records of season s in the team histories are the rows of
\* the tables at index s of LEAGUE_HISTORY
TablesOfSeason(s) ==
    \A l \in DOMAIN LEAGUE_HISTORY[s] :
       \A pos \in DOMAIN LEAGUE_HISTORY[s][l].table :
          LET row == LEAGUE_HISTORY[s][l].table[pos]
          IN row.teamId \in DOMAIN TEAM_HISTORY =>
                \E r \in SeqRange(TEAM_HISTORY[row.teamId].records) :
                   r = LeagueRecord(s, LEAGUE_HISTORY[s][l].compId, pos, row)

\* the cup records of season s in the team histories name cups of the
\* result at index s of CUP_HISTORY
CupsOfSeason(s) ==
    \A tid \in DOMAIN TEAM_HISTORY :
       \A r \in SeqRange(TEAM_HISTORY[tid].records) :
          (r.type = "cup" /\ r.season = s) =>
             \E c \in DOMAIN CUP_HISTORY[s] : CUP_HISTORY[s][c].compId = r.compId

\* C24: from a freshly loaded world, LEAGUE_HISTORY and CUP_HISTORY are as
\* long as the season counter says whenever no season is being run; each
\* run_season appends one entry to each of them, an empty cup result when
\* the cups are disabled or there is no cup; entry s of both lists holds the
\* results of season s.
C24_HistoriesInStep ==
    /\ [](/\ Len(LEAGUE_HISTORY) = CURRENT_SEASON
          /\ Len(CUP_HISTORY) = CURRENT_SEASON
          /\ stage = "idle" =>
                \A s \in 1..CURRENT_SEASON : TablesOfSeason(s) /\ CupsOfSeason(s))
    /\ [][stage = "advance" =>
            /\ Len(LEAGUE_HISTORY') = Len(LEAGUE_HISTORY) + 1
            /\ Len(CUP_HISTORY') = Len(CUP_HISTORY) + 1
            /\ LEAGUE_HISTORY'[CURRENT_SEASON'] = league_results
            /\ CUP_HISTORY'[CURRENT_SEASON'] = cup_results
            /\ (~run_cups \/ OfFormat(COMPS, 1) = <<>>) => CUP_HISTORY'[CURRENT_SEASON'] = <<>>
            /\ \A s \in 1..CURRENT_SEASON :
                  /\ LEAGUE_HISTORY'[s] = LEAGUE_HISTORY[s]
                  /\ CUP_HISTORY'[s] = CUP_HISTORY[s]]_vars

\* two seasons are over: the first was run with the cups disabled and left
\* an empty cup result, the second one played the cup
C24_Witness ==
    /\ stage = "idle"
    /\ CURRENT_SEASON = 2
    /\ OfFormat(COMPS, 1) # <<>>
    /\ Len(CUP_HISTORY) = 2
    /\ CUP_HISTORY[1] = <<>>
    /\ CUP_HISTORY[2] # <<>>
    /\ LEAGUE_HISTORY[1] # <<>>

\* ---------------------------------------------------- claims on cup records
\* team ids and names are distinct, and every team has a history entry
DistinctTeams ==
    /\ \A a, b \in DOMAIN TEAM_OBJECTS :
          a # b => /\ TEAM_OBJECTS[a].teamId # TEAM_OBJECTS[b].teamId
                   /\ TEAM_OBJECTS[a].teamName # TEAM_OBJECTS[b].teamName
    /\ \A a \in DOMAIN TEAM_OBJECTS : TEAM_OBJECTS[a].teamId \in DOMAIN TEAM_HISTORY

\* the cup records a team holds for a cup and the season being recorded
CupRecordsHeld(tid, comp_id) ==
    {i \in DOMAIN TEAM_HISTORY[tid].records :
        LET r == TEAM_HISTORY[tid].records[i]
        IN r.type = "cup" /\ r.compId = comp_id /\ r.season = CURRENT_SEASON + 1}

\* the rounds of a cup result in which a name played
RoundsPlayed(result, name) ==
    {r \in DOMAIN result.rounds :
        \E k \in DOMAIN result.rounds[r].matches : PlayedIn(name, result.rounds[r].matches[k])}

\* the cup records of one cup as the claim describes them
CupRecorded(comp_id, result) ==
    LET winners == {tid \in DOMAIN TEAM_HISTORY :
                      \E i \in CupRecordsHeld(tid, comp_id) :
                         TEAM_HISTORY[tid].records[i].winner}
    IN /\ \E tid \in winners :
             TEAM_OBJECTS[TEAM_ID_MAP[tid]].teamName = result.winner
       /\ Cardinality(winners) = 1
       /\ \A a \in DOMAIN TEAM_OBJECTS :
             LET t == TEAM_OBJECTS[a]
                 played == RoundsPlayed(result, t.teamName)
                 last == CHOOSE r \in played : \A q \in played : q <= r
             IN played # {} =>
                  /\ Cardinality(CupRecordsHeld(t.teamId, comp_id)) = 1
                  /\ \A i \in CupRecordsHeld(t.teamId, comp_id) :
                        /\ TEAM_HISTORY[t.teamId].records[i].best_round
                             = result.rounds[last].round_name
                        /\ last = Len(result.rounds) =>
                              TEAM_HISTORY[t.teamId].records[i].best_round = "Final"

\* C25: once record_history has run, every cup of the season that produced
\* a winner, among teams of distinct ids and names that all have a history
\* entry, has left the winner a cup record with winner = true, no other team
\* one, and every team that played a record of the last round it played in.
C25_CupRecords ==
    (stage = "advance" /\ DistinctTeams) =>
       \A c \in DOMAIN cup_results :
          cup_results[c].result.winner # None =>
             CupRecorded(cup_results[c].compId, cup_results[c].result)

\* -------------------------------------------- claims on continental records
\* the continental records a team holds for a competition and the season
\* being recorded
ContinentalRecordsHeld(tid, comp_id) ==
    {i \in DOMAIN TEAM_HISTORY[tid].records :
        LET r == TEAM_HISTORY[tid].records[i]
        IN r.type = "continental" /\ r.compId = comp_id /\ r.season = CURRENT_SEASON + 1}

\* the records of the teams in ids, for one competition, as the claim
\* describes them
KnockoutRecorded(ids, comp_id, result) ==
    /\ \A a \in DOMAIN TEAM_OBJECTS :
          LET t == TEAM_OBJECTS[a]
              played == RoundsPlayed(result, t.teamName)
              last == CHOOSE r \in played : \A q \in played : q <= r
              held == ContinentalRecordsHeld(t.teamId, comp_id)
          IN (t.teamId \in ids /\ played # {}) =>
                /\ Cardinality(held) = 1
                /\ \A i \in held :
                      /\ TEAM_HISTORY[t.teamId].records[i].stage = result.rounds[last].round_name
                      /\ TEAM_HISTORY[t.teamId].records[i].winner = (t.teamName = result.winner)
    /\ \A tid \in ids :
          \A i \in ContinentalRecordsHeld(tid, comp_id) :
             TEAM_HISTORY[tid].records[i].winner =>
                TEAM_OBJECTS[TEAM_ID_MAP[tid]].teamName = result.winner

\* C26: once record_history has run, every team that played a knockout
\* match of a continental competition holds exactly one continental record
\* of it for the season, its stage the last knockout round the team played
\* in, and the winner and nobody else holds winner = true; for every team id
\* of the registry, 0 included.
C26_KnockoutRecords ==
    stage = "advance" =>
       \A c \in DOMAIN continental_results :
          KnockoutRecorded(DOMAIN TEAM_ID_MAP, continental_results[c].compId,
                           continental_results[c].result)

\* ------------------------------------------------ claims on export and import
\* a step of _import_results
ImportStep == clicks' = clicks + 1 /\ handler' = "import"

\* the file holds the state as it stands
FileIsCurrent ==
    export_file = ExportData(CURRENT_SEASON, LEAGUE_HISTORY, CUP_HISTORY, TEAM_HISTORY,
                             TEAM_ID_MAP, TEAM_OBJECTS)

CompIds == {COMPS[c].compId : c \in DOMAIN COMPS}

ResultIds(history) ==
    UNION {{history[h][c].compId : c \in DOMAIN history[h]} : h \in DOMAIN history}

\* C27: an import of the file just exported leaves the season counter, the
\* league and cup histories and the team histories as they were; after any
\* import the team histories are keyed by the team ids they were keyed by
\* and the season results by competition ids; and the rating evolution of
\* every later season adds a snapshot to the history of every league team,
\* its record_history a league record.
C27_RoundTrip ==
    /\ [][ImportStep =>
            /\ FileIsCurrent =>
                  UNCHANGED <<CURRENT_SEASON, LEAGUE_HISTORY, CUP_HISTORY, TEAM_HISTORY>>
            /\ DOMAIN TEAM_HISTORY' \subseteq DOMAIN TEAM_ID_MAP
            /\ ResultIds(LEAGUE_HISTORY') \cup ResultIds(CUP_HISTORY') \subseteq CompIds]_vars
    /\ [][(stage = "evolve" /\ stage' = "history") =>
            \A tid \in LeagueTeamIds :
               /\ tid \in DOMAIN TEAM_HISTORY'
               /\ Len(TEAM_HISTORY'[tid].ratings) >= 1
               /\ TEAM_HISTORY'[tid].ratings[Len(TEAM_HISTORY'[tid].ratings)].season
                    = CURRENT_SEASON + 1]_vars
    /\ [][(stage = "history" /\ stage' = "advance") =>
            \A tid \in LeagueTeamIds :
               /\ tid \in DOMAIN TEAM_HISTORY'
               /\ \E r \in SeqRange(TEAM_HISTORY'[tid].records) :
                     r.type = "league" /\ r.season = CURRENT_SEASON + 1]_vars

\* ---------------------------------------------------- claims on the GUI
\* C29: while a worker thread lives, the season counter, the histories and
\* the team dicts change only in steps of its run_season; no import replaces
\* them between the start and the end of a season.
C29_WorkerOwnsState ==
    [][(worker_threads > 0 /\ stage' = stage) => UNCHANGED simGlobals]_vars

C30_Career ==
    /\ [][player' # player =>
            /\ player'.age = player.age + 1
            /\ player'.overall >= player.overall
            /\ player'.overall <= player'.potential
            /\ Len(player'.history) = Len(player.history) + 1]_vars
    /\ [](player # <<>> =>
            /\ player.overall <= player.potential
            /\ player.age = 16 + Len(player.history)
            /\ \A i \in DOMAIN player.history : player.history[i].season = i)

=============================================================================
